---- MODULE Spec2Model ----
(***************************************************************************)
(* A model of the CryptexQ messaging core: the HMAC message integrity      *)
(* guard (hmac_integrity.py), the simulated quantum channel (qkd.py) and   *)
(* the Socket.IO handlers over the shared USERS registry (app.py), the     *)
(* KEM and signature providers (pqc_utils.py, dilithium_utils.py) and the  *)
(* signed handshake (server_pqc_handshake.py, client_pqc_handshake.py).    *)
(*                                                                         *)
(* JSON values are encoded as sequences of symbols: a string is the        *)
(* sequence of its characters, None is <<"#None">>, a truthy non-string    *)
(* (a number) is <<"#num">>, a nested object is <<"#dict">> with its keys  *)
(* flattened into the enclosing dict as "integrity.type" and               *)
(* "integrity.value".  A dict is a function whose DOMAIN is the set of     *)
(* keys present.                                                           *)
(***************************************************************************)
EXTENDS Naturals, Sequences, FiniteSets, TLC

\* Longest string drawn for a content, timestamp or sender field.
MaxLen == 1

\* Registrations (keypair generations) in one run of the server.
MaxRegs == 2

\* Raw positions of the simulated quantum channel in the server runs.
QkdN == 2

VARIABLES
    secret,     \* the process-wide HMAC key returned by get_hmac_secret
    gpc,        \* guard harness: "new", "sealed" or "tampered"
    msg,        \* guard harness: the envelope in hand
    sealedMsg,  \* guard harness: the envelope as add_message_integrity left it
    tfield,     \* guard harness: the key changed after sealing, or "none"
    gres,       \* guard harness: outcome of verify_message_integrity, or "none"
    oqs,        \* app.py: oqs imported and has KeyEncapsulation
    conn,       \* per transport address (request.sid): "new", "open" or "closed"
    USERS,      \* app.py USERS, in dict insertion order
    nregs,      \* keypairs generated so far (names the next fresh keypair)
    pc,         \* "idle"; "handled" while the last event's emissions are out;
                \* "replayed" when that event was an accepted envelope sent again;
                \* "checked", "derived" while a session handler is suspended
    ev,         \* the event last handled: name, sid, data and the draws it made
    pre,        \* USERS as the handler found it
    out,        \* what the handler emitted, in order: event, room, payload
    klog,       \* the key-material primitives the handler called, in order
    frame,      \* the locals of a session handler suspended between two steps
    has,        \* pqc_utils / dilithium_utils: _HAS_KYBER, _HAS_FRODO, _HAS_DILITHIUM
    kpc,        \* KEM run: "new", "keyed", "encapsulated", "decapsulated" or "raised"
    krun,       \* KEM run: algorithm, keypair, ciphertext, secrets, primitives called
    hpc,        \* handshake run: "new", "prepared", "received", "done" or "raised"
    handshake,  \* the dict server_prepare_pqc_handshake returned
    wire,       \* handshake_data as it reaches client_verify_and_encapsulate
    client,     \* what client_verify_and_encapsulate did and returned
    server_secret, \* pqc_decapsulate of the client's ciphertext on the server
    qrun        \* QKD run: the draws of generate_qkd_key and what it returned

guardVars == <<gpc, msg, sealedMsg, tfield, gres>>
serverVars == <<oqs, conn, USERS, nregs, pc, ev, pre, out, klog, frame>>
pqcVars == <<has, kpc, krun, hpc, handshake, wire, client, server_secret>>
qkdVars == <<qrun>>
vars == <<secret, gpc, msg, sealedMsg, tfield, gres,
          oqs, conn, USERS, nregs, pc, ev, pre, out, klog, frame,
          has, kpc, krun, hpc, handshake, wire, client, server_secret, qrun>>

-----------------------------------------------------------------------------
(* Python values *)

NoneV == <<"#None">>
NumV == <<"#num">>
DictV == <<"#dict">>
EmptyStr == <<>>
EmptyDict == [k \in {} |-> EmptyStr]

\* bool(v): None and the empty string are falsy.
Truthy(v) == v # NoneV /\ v # EmptyStr

IsStr(v) == v \notin {NoneV, NumV, DictV}

\* d.get(k, default)
Get(d, k, default) == IF k \in DOMAIN d THEN d[k] ELSE default

\* d[k] = v
Put(d, k, v) == (k :> v) @@ d

\* d.pop(k, None)
Del(d, k) == [x \in DOMAIN d \ {k} |-> d[x]]

\* a or b
PyOr(a, b) == IF Truthy(a) THEN a ELSE b

-----------------------------------------------------------------------------
(* hmac_integrity.py *)

Secrets == {"k1", "k2"}

\* The literal default sender, one symbol that no drawn string contains.
Unknown == <<"unknown">>

HMAC_SHA256 == <<"HMAC_SHA256">>

\* hmac.new(secret, data, sha256).hexdigest(): a non-empty string, taken to be
\* collision free, so it is modelled by the pair it was computed from.
HmacHex(key, data) == <<"hmac", key>> \o data

generate_hmac_no_sender(message_content, timestamp, sender_id, key) ==
    HmacHex(key, message_content \o <<"|">> \o timestamp)

generate_hmac(message_content, timestamp, sender_id, key) ==
    HmacHex(key, message_content \o <<"|">> \o timestamp \o <<"|">> \o sender_id)

\* message_data.get('ciphertext_b64', '') or message_data.get('message', '')
ContentOf(m) == PyOr(Get(m, "ciphertext_b64", EmptyStr), Get(m, "message", EmptyStr))

SenderOf(m) == Get(m, "from", Unknown)

\* Lines 103-105: the timestamp is assigned only when the key is absent.
AssignTimestamp(m, now) ==
    IF "timestamp" \notin DOMAIN m THEN Put(m, "timestamp", now) ELSE m

\* A seal that computes the tag before it assigns the timestamp.
add_message_integrity_stamp_after(m, now, key) ==
    LET hmac_value == generate_hmac(ContentOf(m), Get(m, "timestamp", EmptyStr),
                                    SenderOf(m), key)
        m1 == AssignTimestamp(m, now)
    IN  Put(Put(Put(m1, "integrity", DictV), "integrity.type", HMAC_SHA256),
            "integrity.value", hmac_value)

\* A seal that stamps the envelope with the clock on every call.
add_message_integrity_restamp(m, now, key) ==
    LET m1 == Put(m, "timestamp", now)
        hmac_value == generate_hmac(ContentOf(m1), m1["timestamp"], SenderOf(m1), key)
    IN  Put(Put(Put(m1, "integrity", DictV), "integrity.type", HMAC_SHA256),
            "integrity.value", hmac_value)

add_message_integrity(m, now, key) ==
    LET m1 == AssignTimestamp(m, now)
        hmac_value == generate_hmac(ContentOf(m1), m1["timestamp"], SenderOf(m1), key)
    IN  Put(Put(Put(m1, "integrity", DictV), "integrity.type", HMAC_SHA256),
            "integrity.value", hmac_value)

\* verify_message_integrity reading a missing integrity field as an empty dict.
verify_without_presence_check(m, key) ==
    IF Get(m, "integrity", DictV) # DictV THEN "InvalidFormat"
    ELSE IF Get(m, "integrity.type", NoneV) # HMAC_SHA256 THEN "Unsupported"
    ELSE "MissingValue"

\* A verification that remembers the envelope just accepted and refuses it.
verify_remembering(m, key) ==
    IF "integrity" \notin DOMAIN m THEN "Missing"
    ELSE IF m["integrity"] # DictV THEN "InvalidFormat"
    ELSE IF Get(m, "integrity.type", NoneV) # HMAC_SHA256 THEN "Unsupported"
    ELSE LET received_hmac == Get(m, "integrity.value", NoneV)
             timestamp == Get(m, "timestamp", EmptyStr)
         IN  IF ~Truthy(received_hmac) THEN "MissingValue"
             ELSE IF ~Truthy(timestamp) THEN "MissingTimestamp"
             ELSE IF ~IsStr(received_hmac) THEN "Raise"
             ELSE IF received_hmac # generate_hmac(ContentOf(m), timestamp, SenderOf(m), key)
                  THEN "Mismatch"
             ELSE IF pc = "handled" /\ ev.data = m THEN "Replayed"
             ELSE "Ok"

\* A verification whose recomputed tag also covers the iv_b64 field.
verify_covering_iv(m, key) ==
    IF "integrity" \notin DOMAIN m THEN "Missing"
    ELSE IF m["integrity"] # DictV THEN "InvalidFormat"
    ELSE IF Get(m, "integrity.type", NoneV) # HMAC_SHA256 THEN "Unsupported"
    ELSE LET received_hmac == Get(m, "integrity.value", NoneV)
             timestamp == Get(m, "timestamp", EmptyStr)
         IN  IF ~Truthy(received_hmac) THEN "MissingValue"
             ELSE IF ~Truthy(timestamp) THEN "MissingTimestamp"
             ELSE IF ~IsStr(received_hmac) THEN "Raise"
             ELSE IF received_hmac # generate_hmac(ContentOf(m) \o Get(m, "iv_b64", EmptyStr),
                                                   timestamp, SenderOf(m), key)
                  THEN "Mismatch"
             ELSE "Ok"

\* The outcome of verify_message_integrity; "Raise" is the TypeError that
\* hmac.compare_digest raises on a non-string value.
verify_message_integrity(m, key) ==
    IF "integrity" \notin DOMAIN m THEN "Missing"
    ELSE IF m["integrity"] # DictV THEN "InvalidFormat"
    ELSE IF Get(m, "integrity.type", NoneV) # HMAC_SHA256 THEN "Unsupported"
    ELSE LET received_hmac == Get(m, "integrity.value", NoneV)
             timestamp == Get(m, "timestamp", EmptyStr)
         IN  IF ~Truthy(received_hmac) THEN "MissingValue"
             ELSE IF ~Truthy(timestamp) THEN "MissingTimestamp"
             ELSE IF ~IsStr(received_hmac) THEN "Raise"
             ELSE IF received_hmac # generate_hmac(ContentOf(m), timestamp, SenderOf(m), key)
                  THEN "Mismatch"
             ELSE "Ok"

\* The prints of lines 206-210: the first line holds a non-ASCII arrow and the
\* client's 'from' and 'to', the third its 'timestamp'.  print raises
\* UnicodeEncodeError when stdout cannot encode one of them (`unprintable`:
\* a lone surrogate in a client string, an output encoding without the
\* arrow); otherwise the function returns None.
log_integrity_failure(m, reason, unprintable) ==
    IF unprintable THEN "UnicodeEncodeError" ELSE "none"

\* The dict of lines 228-233, returned after log_integrity_failure returned.
safe_reject_message(m, reason) ==
    ("error" :> <<"MESSAGE_INTEGRITY_FAILED">>)
        @@ ("reason" :> <<"Message integrity verification failed">>)
        @@ ("details" :> <<reason>>)
        @@ ("action" :> <<"Message rejected for security reasons">>)

\* add_message_integrity raises where it reads the secret (get_hmac_secret,
\* line 113) when seal_raises; the timestamp is assigned by then.
wrap_outgoing_message(m, now, key, seal_raises) ==
    IF seal_raises THEN AssignTimestamp(m, now)
    ELSE add_message_integrity(m, now, key)

\* Every outcome of the verification but "Ok", its exception included, goes
\* to safe_reject_message: inside the try when verification returned False
\* (line 288), inside the except clause when it raised (line 297), and
\* again inside the except clause when the call at line 288 raised.  The
\* call inside the except clause is not guarded: what log_integrity_failure
\* raises there leaves the function (`raised`, with no return value).
unwrap_incoming_message(m, key, unprintable) ==
    LET outcome == verify_message_integrity(m, key)
        logged == log_integrity_failure(m, outcome, unprintable)
    IN  IF outcome = "Ok"
        THEN [is_valid |-> TRUE, result |-> m, raised |-> "none"]
        ELSE IF logged # "none"
        THEN [is_valid |-> FALSE, result |-> EmptyDict, raised |-> logged]
        ELSE [is_valid |-> FALSE, result |-> safe_reject_message(m, outcome),
              raised |-> "none"]

\* str(int(time.time() * 1000)): a non-empty string of digits.
NowStamps == {[i \in 1..n |-> "1"] : n \in 1..MaxLen}

-----------------------------------------------------------------------------
(* qkd.py *)

Bits == {0, 1}
Bases == {"X", "Z"}

RECURSIVE SumBits(_)
SumBits(bits) == IF bits = <<>> THEN 0 ELSE Head(bits) + SumBits(Tail(bits))

\* [bit for bit, a_base, b_base in zip(...) if a_base == b_base]
RECURSIVE Sift(_, _, _)
Sift(alice_bits, alice_bases, bob_bases) ==
    IF alice_bits = <<>> \/ alice_bases = <<>> \/ bob_bases = <<>> THEN <<>>
    ELSE LET rest == Sift(Tail(alice_bits), Tail(alice_bases), Tail(bob_bases))
         IN  IF Head(alice_bases) = Head(bob_bases)
             THEN <<Head(alice_bits)>> \o rest
             ELSE rest

\* error_rate: 0, a rate strictly between 0 and 1 (the default 0.1), and 1.
ErrorRates == {"0", "0.1", "1"}

\* One draw of random.random(): below the rate 0.1 or not.
NoiseDraws == {"below", "above"}

\* random.random() < error_rate: never for 0, always for 1.
Flips(u, error_rate) ==
    \/ error_rate = "1"
    \/ error_rate = "0.1" /\ u = "below"

\* Lines 16-27: what Bob measures (Alice's bit on a matching basis, his own
\* draw otherwise), then the noise.
BobResults(alice_bits, alice_bases, bob_bases, measured, noise, error_rate) ==
    [i \in 1..Len(alice_bits) |->
        LET result == IF alice_bases[i] = bob_bases[i] THEN alice_bits[i]
                      ELSE measured[i]
        IN  IF Flips(noise[i], error_rate) THEN 1 - result ELSE result]

\* A key sifted without the trailing parity fix.
generate_qkd_key_no_parity(alice_bits, alice_bases, bob_bases, measured, noise, error_rate) ==
    Sift(alice_bits, alice_bases, bob_bases)

\* A key sifted from what Bob measured.
generate_qkd_key_from_receiver(alice_bits, alice_bases, bob_bases, measured, noise, error_rate) ==
    LET bob_results == BobResults(alice_bits, alice_bases, bob_bases,
                                  measured, noise, error_rate)
        shared_key == Sift(bob_results, alice_bases, bob_bases)
        n == Len(shared_key)
    IN  IF shared_key # <<>> /\ SumBits(shared_key) % 2 # 0
        THEN [shared_key EXCEPT ![n] = 1 - shared_key[n]]
        ELSE shared_key

\* generate_qkd_key for one draw of Alice's bits, of the two basis
\* sequences, of Bob's measurements and of the noise.  bob_results is
\* computed at lines 16-27 and not read again.
generate_qkd_key(alice_bits, alice_bases, bob_bases, measured, noise, error_rate) ==
    LET bob_results == BobResults(alice_bits, alice_bases, bob_bases,
                                  measured, noise, error_rate)
        shared_key == Sift(alice_bits, alice_bases, bob_bases)
        n == Len(shared_key)
    IN  IF shared_key # <<>> /\ SumBits(shared_key) % 2 # 0
        THEN [shared_key EXCEPT ![n] = 1 - shared_key[n]]
        ELSE shared_key

\* "".join(map(str, qkd_bit_list))
BitString(bits) == [i \in 1..Len(bits) |-> IF bits[i] = 0 THEN "0" ELSE "1"]

\* hashlib.sha256(data).digest(), taken to be collision free.
Sha256(data) == <<"sha256">> \o data

\* The sifted bits handed out as the key, without hashing.
derive_aes_key_unhashed(qkd_bit_list) == BitString(qkd_bit_list)

derive_aes_key_from_qkd(qkd_bit_list) == Sha256(BitString(qkd_bit_list))

\* What generate_qkd_key(QkdN) can return (the default error_rate).
QkdOutputs ==
    {generate_qkd_key(ab, aB, bB, m, u, "0.1") :
        ab \in [1..QkdN -> Bits], aB \in [1..QkdN -> Bases], bB \in [1..QkdN -> Bases],
        m \in [1..QkdN -> Bits], u \in [1..QkdN -> NoiseDraws]}

\* No QKD run in hand.
NoQkdRun ==
    [stage |-> "off", error_rate |-> "0.1", alice_bits |-> <<>>, alice_bases |-> <<>>,
     bob_bases |-> <<>>, bob_results |-> <<>>, key |-> <<>>,
     bob_results2 |-> <<>>, key2 |-> <<>>]

-----------------------------------------------------------------------------
(* Bytes: base64, os.urandom and the oqs KEM *)

\* base64.b64encode(b).decode() and base64.b64decode(s)
b64encode(b) == <<"b64">> \o b
b64decode(s) == Tail(s)

\* The draws of os.urandom.
Coins == {"c1", "c2"}

urandom96(x) == <<"urandom96", x>>
urandom32(x) == <<"urandom32", x>>

\* len() of a byte string.
NumBytes(b) ==
    CASE b = <<>> -> 0
      [] b[1] = "sha256" -> 32
      [] b[1] = "urandom32" -> 32
      [] b[1] = "ss" -> 32
      [] b[1] = "urandom96" -> 96
      [] OTHER -> 0

Digit(n) == <<"0", "1", "2", "3", "4", "5", "6", "7", "8", "9">>[n + 1]

\* kem.generate_keypair(), kem.export_secret_key(): the n-th keypair.
OqsPublic(n) == <<"pk", Digit(n)>>
OqsPrivate(n) == <<"sk", Digit(n)>>

\* os.urandom(64), twice: the n-th simulated keypair.
SimPublic(n) == <<"urandom64", Digit(n), "public">>
SimPrivate(n) == <<"urandom64", Digit(n), "private">>

\* kem.encap_secret(pk) with coin r: ciphertext and shared secret.
encap_secret(pk, r) ==
    [ciphertext |-> <<"ct", pk[2], r>>, shared |-> <<"ss", pk[2], r>>]

\* A decapsulation that always takes the rejection branch.
decap_secret_wrong(ciphertext, sk) == <<"ss", sk[2], "rejected">>

\* kem_dec.decap_secret(ciphertext, sk): the encapsulated secret under the
\* matching secret key, an unrelated one otherwise (implicit rejection).
decap_secret(ciphertext, sk) ==
    IF sk[2] = ciphertext[2]
    THEN <<"ss", ciphertext[2], ciphertext[3]>>
    ELSE <<"ss", sk[2], "rejected">>

-----------------------------------------------------------------------------
(* The USERS dict, kept in insertion order as Python keeps it *)

UserList(U) == [i \in DOMAIN U |-> U[i].username]

InUsers(U, u) == \E i \in DOMAIN U : U[i].username = u

IndexOf(U, u) == CHOOSE i \in DOMAIN U : U[i].username = u

\* USERS[u]
Info(U, u) == U[IndexOf(U, u)].info

\* USERS[u] = info
SetUser(U, u, info) ==
    IF InUsers(U, u)
    THEN [U EXCEPT ![IndexOf(U, u)] = [username |-> u, info |-> info]]
    ELSE Append(U, [username |-> u, info |-> info])

\* USERS.pop(u, None)
PopUser(U, u) ==
    IF InUsers(U, u)
    THEN LET k == IndexOf(U, u)
         IN  [i \in 1..(Len(U) - 1) |-> IF i < k THEN U[i] ELSE U[i + 1]]
    ELSE U

Broadcast == <<"#broadcast">>
TrueV == <<"#True">>

Emit(event, room, payload) == [event |-> event, room |-> room, payload |-> payload]

-----------------------------------------------------------------------------
(* app.py: the Socket.IO handlers.  Each returns the registry it leaves, the *)
(* emissions it makes in order, the key primitives it called and the call    *)
(* that raised inside it ("none" when none did).                             *)

Result(users, n, emissions, keyops, raised) ==
    [users |-> users, nregs |-> n, out |-> emissions, klog |-> keyops,
     raised |-> raised]

ErrorOnly(sid, payload) ==
    Result(USERS, nregs, <<Emit("error", sid, payload)>>, <<>>, "none")

\* The first entry, in dict order, that a transport registered.
FirstOfSid(U, sid) ==
    LET hits == {i \in DOMAIN U : Get(U[i].info, "sid", NoneV) = sid}
    IN  IF hits = {} THEN 0 ELSE CHOOSE i \in hits : \A j \in hits : i <= j

\* A disconnect that drops the oldest entry whatever transport it is bound to.
on_disconnect_oldest(sid) ==
    LET users == IF USERS = <<>> THEN USERS ELSE PopUser(USERS, USERS[1].username)
    IN  Result(users, nregs,
               <<Emit("online_users", Broadcast, "users" :> UserList(users))>>, <<>>,
               "none")

on_disconnect(sid) ==
    LET k == FirstOfSid(USERS, sid)
        users == IF k = 0 THEN USERS ELSE PopUser(USERS, USERS[k].username)
    IN  Result(users, nregs,
               <<Emit("online_users", Broadcast, "users" :> UserList(users))>>, <<>>,
               "none")

\* A register that keeps the keypair of the entry it replaces.
handle_register_keep_kyber(sid, data, keygen_raises) ==
    LET username == Get(data, "username", NoneV)
        pub_b64 == Get(data, "x25519_pub_b64", NoneV)
    IN  IF ~Truthy(username) \/ ~Truthy(pub_b64)
        THEN ErrorOnly(sid, "message" :> <<"Invalid registration data">>)
        ELSE LET entry == ("sid" :> sid) @@ ("pub" :> pub_b64)
                 prior == IF InUsers(USERS, username) THEN Info(USERS, username)
                          ELSE EmptyDict
                 pk == IF oqs THEN OqsPublic(nregs + 1) ELSE SimPublic(nregs + 1)
                 sk == IF oqs THEN OqsPrivate(nregs + 1) ELSE SimPrivate(nregs + 1)
                 kyber == IF "kyber" \in DOMAIN prior
                          THEN [k \in DOMAIN prior \ {"sid", "pub"} |-> prior[k]]
                          ELSE ("kyber" :> DictV) @@ ("kyber.public" :> pk)
                                   @@ ("kyber.private" :> sk)
                 users == SetUser(USERS, username, entry @@ kyber)
             IN  Result(users, nregs + 1,
                        <<Emit("registered", sid,
                               ("username" :> username)
                                   @@ ("kyber_pub_b64" :> b64encode(kyber["kyber.public"]))),
                          Emit("online_users", Broadcast, "users" :> UserList(users))>>,
                        <<"keygen">>, "none")

\* A register that answers with the secret half of the keypair.
handle_register_sends_private(sid, data, keygen_raises) ==
    LET username == Get(data, "username", NoneV)
        pub_b64 == Get(data, "x25519_pub_b64", NoneV)
    IN  IF ~Truthy(username) \/ ~Truthy(pub_b64)
        THEN ErrorOnly(sid, "message" :> <<"Invalid registration data">>)
        ELSE LET entry == ("sid" :> sid) @@ ("pub" :> pub_b64)
                 raised == oqs /\ keygen_raises
                 pk == IF oqs THEN OqsPublic(nregs + 1) ELSE SimPublic(nregs + 1)
                 sk == IF oqs THEN OqsPrivate(nregs + 1) ELSE SimPrivate(nregs + 1)
                 kyber == ("kyber" :> DictV) @@ ("kyber.public" :> pk)
                              @@ ("kyber.private" :> sk)
                 users == SetUser(USERS, username,
                                  IF raised THEN entry ELSE entry @@ kyber)
                 kyber_pub_b64 == IF raised THEN EmptyStr ELSE b64encode(sk)
             IN  Result(users,
                        IF raised THEN nregs ELSE nregs + 1,
                        <<Emit("registered", sid,
                               ("username" :> username) @@ ("kyber_pub_b64" :> kyber_pub_b64)),
                          Emit("online_users", Broadcast, "users" :> UserList(users))>>,
                        IF raised THEN <<>> ELSE <<"keygen">>,
                        IF raised THEN "keygen" ELSE "none")

\* A register that broadcasts the list it read before storing the entry.
handle_register_stale_list(sid, data, keygen_raises) ==
    LET username == Get(data, "username", NoneV)
        pub_b64 == Get(data, "x25519_pub_b64", NoneV)
    IN  IF ~Truthy(username) \/ ~Truthy(pub_b64)
        THEN ErrorOnly(sid, "message" :> <<"Invalid registration data">>)
        ELSE LET entry == ("sid" :> sid) @@ ("pub" :> pub_b64)
                 raised == oqs /\ keygen_raises
                 pk == IF oqs THEN OqsPublic(nregs + 1) ELSE SimPublic(nregs + 1)
                 sk == IF oqs THEN OqsPrivate(nregs + 1) ELSE SimPrivate(nregs + 1)
                 kyber == ("kyber" :> DictV) @@ ("kyber.public" :> pk)
                              @@ ("kyber.private" :> sk)
                 users == SetUser(USERS, username,
                                  IF raised THEN entry ELSE entry @@ kyber)
                 kyber_pub_b64 == IF raised THEN EmptyStr ELSE b64encode(pk)
             IN  Result(users,
                        IF raised THEN nregs ELSE nregs + 1,
                        <<Emit("registered", sid,
                               ("username" :> username) @@ ("kyber_pub_b64" :> kyber_pub_b64)),
                          Emit("online_users", Broadcast, "users" :> UserList(USERS))>>,
                        IF raised THEN <<>> ELSE <<"keygen">>,
                        IF raised THEN "keygen" ELSE "none")

handle_register(sid, data, keygen_raises) ==
    LET username == Get(data, "username", NoneV)
        pub_b64 == Get(data, "x25519_pub_b64", NoneV)
    IN  IF ~Truthy(username) \/ ~Truthy(pub_b64)
        THEN ErrorOnly(sid, "message" :> <<"Invalid registration data">>)
        ELSE LET entry == ("sid" :> sid) @@ ("pub" :> pub_b64)
                 raised == oqs /\ keygen_raises
                 pk == IF oqs THEN OqsPublic(nregs + 1) ELSE SimPublic(nregs + 1)
                 sk == IF oqs THEN OqsPrivate(nregs + 1) ELSE SimPrivate(nregs + 1)
                 kyber == ("kyber" :> DictV) @@ ("kyber.public" :> pk)
                              @@ ("kyber.private" :> sk)
                 users == SetUser(USERS, username,
                                  IF raised THEN entry ELSE entry @@ kyber)
                 kyber_pub_b64 == IF raised THEN EmptyStr ELSE b64encode(pk)
             IN  Result(users,
                        IF raised THEN nregs ELSE nregs + 1,
                        <<Emit("registered", sid,
                               ("username" :> username) @@ ("kyber_pub_b64" :> kyber_pub_b64)),
                          Emit("online_users", Broadcast, "users" :> UserList(users))>>,
                        IF raised THEN <<>> ELSE <<"keygen">>,
                        IF raised THEN "keygen" ELSE "none")

\* An except branch that draws the peer's demo secret afresh.
KemFallback_two_secrets(done, why, x, y) ==
    [ciphertext |-> urandom96(x), ss_initiator |-> urandom32(y),
     ss_peer |-> urandom32(IF y = "c1" THEN "c2" ELSE "c1"),
     klog |-> done \o <<"urandom96", "urandom32">>,
     path |-> "fallback", raised |-> why]

\* Lines 421-426: the demo key of the except branch, after the primitives
\* in `done` had returned.
KemFallback(done, why, x, y) ==
    [ciphertext |-> urandom96(x), ss_initiator |-> urandom32(y),
     ss_peer |-> urandom32(y), klog |-> done \o <<"urandom96", "urandom32">>,
     path |-> "fallback", raised |-> why]

\* A KEM step whose except branch keeps the ciphertext encapsulation returned.
KemStep_keeps_ciphertext(peer_info, fault, r, x, y) ==
    IF oqs
    THEN IF "kyber" \notin DOMAIN peer_info
         THEN KemFallback(<<>>, "KeyError", x, y)
         ELSE IF fault = "encap"
         THEN KemFallback(<<>>, "encap", x, y)
         ELSE LET enc == encap_secret(peer_info["kyber.public"], r)
              IN  IF fault = "decap"
                  THEN [KemFallback(<<"encap">>, "decap", x, y)
                            EXCEPT !.ciphertext = enc.ciphertext]
                  ELSE [ciphertext |-> enc.ciphertext, ss_initiator |-> enc.shared,
                        ss_peer |-> decap_secret(enc.ciphertext, peer_info["kyber.private"]),
                        klog |-> <<"encap", "decap">>, path |-> "real",
                        raised |-> "none"]
    ELSE [ciphertext |-> urandom96(x), ss_initiator |-> urandom32(y),
          ss_peer |-> urandom32(y), klog |-> <<"urandom96", "urandom32">>,
          path |-> "simulated", raised |-> "none"]

\* Lines 399-426: ciphertext and the two secrets.
KemStep(peer_info, fault, r, x, y) ==
    IF oqs
    THEN IF "kyber" \notin DOMAIN peer_info
         THEN KemFallback(<<>>, "KeyError", x, y)
         ELSE IF fault = "encap"
         THEN KemFallback(<<>>, "encap", x, y)
         ELSE LET enc == encap_secret(peer_info["kyber.public"], r)
              IN  IF fault = "decap"
                  THEN KemFallback(<<"encap">>, "decap", x, y)
                  ELSE [ciphertext |-> enc.ciphertext, ss_initiator |-> enc.shared,
                        ss_peer |-> decap_secret(enc.ciphertext, peer_info["kyber.private"]),
                        klog |-> <<"encap", "decap">>, path |-> "real",
                        raised |-> "none"]
    ELSE [ciphertext |-> urandom96(x), ss_initiator |-> urandom32(y),
          ss_peer |-> urandom32(y), klog |-> <<"urandom96", "urandom32">>,
          path |-> "simulated", raised |-> "none"]

\* Key events with the initiator's sent to the transport that asked.
KyberEmissions_to_requester(sid, initiator, peer, initiator_info, peer_info, kem) ==
    <<Emit("kyber_shared_for_initiator", sid,
           ("from" :> peer)
               @@ ("kyber_ss_b64" :> b64encode(kem.ss_initiator))
               @@ ("peer_x25519_b64" :> Get(peer_info, "x25519_pub_b64", NoneV))
               @@ ("cipher_b64" :> b64encode(kem.ciphertext))),
      Emit("kyber_ready_peer", peer_info["sid"],
           ("from" :> initiator)
               @@ ("cipher_b64" :> b64encode(kem.ciphertext))
               @@ ("initiator_x25519_b64" :> Get(initiator_info, "x25519_pub_b64", NoneV))
               @@ ("kyber_ss_b64" :> b64encode(kem.ss_peer))),
      Emit("session_initiated", sid, "ok" :> TrueV)>>

\* The locals of handle_request_start before its KEM step.
NoKemStep ==
    [ciphertext |-> EmptyStr, ss_initiator |-> EmptyStr, ss_peer |-> EmptyStr,
     klog |-> <<>>, path |-> "none", raised |-> "none"]

\* No handler is suspended.
NoFrame ==
    [initiator_info |-> EmptyDict, peer_info |-> EmptyDict, kem |-> NoKemStep,
     left |-> {}]

\* Emissions that look the two parties up again and report an absent one.
KyberEmissions_rechecking(sid, initiator, peer, initiator_info, peer_info, kem) ==
    IF ~InUsers(USERS, initiator) \/ ~InUsers(USERS, peer)
    THEN <<Emit("error", sid, "error" :> <<"user(s) not online">>)>>
    ELSE <<Emit("kyber_shared_for_initiator", initiator_info["sid"],
                ("from" :> peer)
                    @@ ("kyber_ss_b64" :> b64encode(kem.ss_initiator))
                    @@ ("peer_x25519_b64" :> Get(peer_info, "x25519_pub_b64", NoneV))
                    @@ ("cipher_b64" :> b64encode(kem.ciphertext))),
           Emit("kyber_ready_peer", peer_info["sid"],
                ("from" :> initiator)
                    @@ ("cipher_b64" :> b64encode(kem.ciphertext))
                    @@ ("initiator_x25519_b64" :> Get(initiator_info, "x25519_pub_b64", NoneV))
                    @@ ("kyber_ss_b64" :> b64encode(kem.ss_peer))),
           Emit("session_initiated", sid, "ok" :> TrueV)>>

\* Lines 433-457, and again 462-486.
KyberEmissions(sid, initiator, peer, initiator_info, peer_info, kem) ==
    <<Emit("kyber_shared_for_initiator", initiator_info["sid"],
           ("from" :> peer)
               @@ ("kyber_ss_b64" :> b64encode(kem.ss_initiator))
               @@ ("peer_x25519_b64" :> Get(peer_info, "x25519_pub_b64", NoneV))
               @@ ("cipher_b64" :> b64encode(kem.ciphertext))),
      Emit("kyber_ready_peer", peer_info["sid"],
           ("from" :> initiator)
               @@ ("cipher_b64" :> b64encode(kem.ciphertext))
               @@ ("initiator_x25519_b64" :> Get(initiator_info, "x25519_pub_b64", NoneV))
               @@ ("kyber_ss_b64" :> b64encode(kem.ss_peer))),
      Emit("session_initiated", sid, "ok" :> TrueV)>>

\* A hybrid handler that reports an absent party twice.
handle_request_start_retrying(sid, data, fault, r, x, y) ==
    LET initiator == Get(data, "from", NoneV)
        peer == Get(data, "to", NoneV)
    IN  IF ~Truthy(initiator) \/ ~Truthy(peer)
        THEN ErrorOnly(sid, "error" :> <<"from/to required">>)
        ELSE IF ~InUsers(USERS, initiator) \/ ~InUsers(USERS, peer)
        THEN Result(USERS, nregs,
                    <<Emit("error", sid, "error" :> <<"user(s) not online">>),
                      Emit("error", sid, "error" :> <<"user(s) not online">>)>>,
                    <<>>, "none")
        ELSE LET initiator_info == Info(USERS, initiator)
                 peer_info == Info(USERS, peer)
                 kem == KemStep(peer_info, fault, r, x, y)
                 once == KyberEmissions(sid, initiator, peer,
                                        initiator_info, peer_info, kem)
             IN  Result(USERS, nregs, once \o once, kem.klog, kem.raised)

handle_request_start(sid, data, fault, r, x, y) ==
    LET initiator == Get(data, "from", NoneV)
        peer == Get(data, "to", NoneV)
    IN  IF ~Truthy(initiator) \/ ~Truthy(peer)
        THEN ErrorOnly(sid, "error" :> <<"from/to required">>)
        ELSE IF ~InUsers(USERS, initiator) \/ ~InUsers(USERS, peer)
        THEN ErrorOnly(sid, "error" :> <<"user(s) not online">>)
        ELSE LET initiator_info == Info(USERS, initiator)
                 peer_info == Info(USERS, peer)
                 kem == KemStep(peer_info, fault, r, x, y)
                 once == KyberEmissions(sid, initiator, peer,
                                        initiator_info, peer_info, kem)
             IN  Result(USERS, nregs, once \o once, kem.klog, kem.raised)

\* A QKD handler that derives the key before it looks the parties up.
handle_start_qkd_session_eager(sid, data, qkd_bits) ==
    LET initiator == Get(data, "from", NoneV)
        peer == Get(data, "to", NoneV)
        shared_b64 == b64encode(derive_aes_key_from_qkd(qkd_bits))
    IN  IF ~Truthy(initiator) \/ ~Truthy(peer)
        THEN ErrorOnly(sid, "error" :> <<"from/to required">>)
        ELSE IF ~InUsers(USERS, initiator) \/ ~InUsers(USERS, peer)
        THEN Result(USERS, nregs,
                    <<Emit("error", sid, "error" :> <<"user(s) not online">>)>>,
                    <<"qkd", "sha256">>, "none")
        ELSE Result(USERS, nregs,
                    <<Emit("qkd_shared_key", Info(USERS, initiator)["sid"],
                           ("peer" :> peer) @@ ("shared_b64" :> shared_b64)),
                      Emit("qkd_shared_key", Info(USERS, peer)["sid"],
                           ("peer" :> initiator) @@ ("shared_b64" :> shared_b64))>>,
                    <<"qkd", "sha256">>, "none")

\* A QKD handler that keeps the session key in the initiator's entry.
handle_start_qkd_session_storing(sid, data, qkd_bits) ==
    LET initiator == Get(data, "from", NoneV)
        peer == Get(data, "to", NoneV)
    IN  IF ~Truthy(initiator) \/ ~Truthy(peer)
        THEN ErrorOnly(sid, "error" :> <<"from/to required">>)
        ELSE IF ~InUsers(USERS, initiator) \/ ~InUsers(USERS, peer)
        THEN ErrorOnly(sid, "error" :> <<"user(s) not online">>)
        ELSE LET shared_key_bytes == derive_aes_key_from_qkd(qkd_bits)
                 shared_b64 == b64encode(shared_key_bytes)
                 i_sid == Info(USERS, initiator)["sid"]
                 p_sid == Info(USERS, peer)["sid"]
                 users == SetUser(USERS, initiator,
                                  Put(Info(USERS, initiator), "session_key", shared_b64))
             IN  Result(users, nregs,
                        <<Emit("qkd_shared_key", i_sid,
                               ("peer" :> peer) @@ ("shared_b64" :> shared_b64)),
                          Emit("qkd_shared_key", p_sid,
                               ("peer" :> initiator) @@ ("shared_b64" :> shared_b64))>>,
                        <<"qkd", "sha256">>, "none")

handle_start_qkd_session(sid, data, qkd_bits) ==
    LET initiator == Get(data, "from", NoneV)
        peer == Get(data, "to", NoneV)
    IN  IF ~Truthy(initiator) \/ ~Truthy(peer)
        THEN ErrorOnly(sid, "error" :> <<"from/to required">>)
        ELSE IF ~InUsers(USERS, initiator) \/ ~InUsers(USERS, peer)
        THEN ErrorOnly(sid, "error" :> <<"user(s) not online">>)
        ELSE LET shared_key_bytes == derive_aes_key_from_qkd(qkd_bits)
                 shared_b64 == b64encode(shared_key_bytes)
                 i_sid == Info(USERS, initiator)["sid"]
                 p_sid == Info(USERS, peer)["sid"]
             IN  Result(USERS, nregs,
                        <<Emit("qkd_shared_key", i_sid,
                               ("peer" :> peer) @@ ("shared_b64" :> shared_b64)),
                          Emit("qkd_shared_key", p_sid,
                               ("peer" :> initiator) @@ ("shared_b64" :> shared_b64))>>,
                        <<"qkd", "sha256">>, "none")

\* A message handler that opens the envelope only when its integrity field
\* is truthy.
handle_encrypted_message_truthy(sid, data, now, seal_raises, unprintable) ==
    LET to == Get(data, "to", NoneV)
        checked == unwrap_incoming_message(data, secret, unprintable)
        integrity == Get(data, "integrity", NoneV)
        empty_object == integrity = DictV /\ DOMAIN data \cap {"integrity.type", "integrity.value"} = {}
    IN  IF ~Truthy(to) \/ ~InUsers(USERS, to)
        THEN ErrorOnly(sid, "error" :> <<"recipient not available">>)
        ELSE IF Truthy(integrity) /\ ~empty_object /\ checked.raised # "none"
        THEN Result(USERS, nregs, <<>>, <<>>, checked.raised)
        ELSE IF Truthy(integrity) /\ ~empty_object /\ ~checked.is_valid
        THEN ErrorOnly(sid, checked.result)
        ELSE LET secured_data == wrap_outgoing_message(data, now, secret, seal_raises)
                 recipient_sid == Info(USERS, to)["sid"]
             IN  Result(USERS, nregs,
                        <<Emit("new_encrypted_message", recipient_sid, secured_data),
                          Emit("new_encrypted_message", sid, secured_data),
                          Emit("message_delivered", sid, ("to" :> to) @@ ("ok" :> TrueV))>>,
                        <<>>, IF seal_raises THEN "seal" ELSE "none")

\* A message handler that gives up when sealing raises.
handle_encrypted_message_seal_blocks(sid, data, now, seal_raises, unprintable) ==
    LET to == Get(data, "to", NoneV)
        checked == unwrap_incoming_message(data, secret, unprintable)
    IN  IF ~Truthy(to) \/ ~InUsers(USERS, to)
        THEN ErrorOnly(sid, "error" :> <<"recipient not available">>)
        ELSE IF "integrity" \in DOMAIN data /\ checked.raised # "none"
        THEN Result(USERS, nregs, <<>>, <<>>, checked.raised)
        ELSE IF "integrity" \in DOMAIN data /\ ~checked.is_valid
        THEN ErrorOnly(sid, checked.result)
        ELSE IF seal_raises
        THEN Result(USERS, nregs,
                    <<Emit("error", sid, "error" :> <<"sealing failed">>)>>, <<>>, "seal")
        ELSE LET secured_data == wrap_outgoing_message(data, now, secret, seal_raises)
                 recipient_sid == Info(USERS, to)["sid"]
             IN  Result(USERS, nregs,
                        <<Emit("new_encrypted_message", recipient_sid, secured_data),
                          Emit("new_encrypted_message", sid, secured_data),
                          Emit("message_delivered", sid, ("to" :> to) @@ ("ok" :> TrueV))>>,
                        <<>>, "none")

handle_encrypted_message(sid, data, now, seal_raises, unprintable) ==
    LET to == Get(data, "to", NoneV)
        checked == unwrap_incoming_message(data, secret, unprintable)
    IN  IF ~Truthy(to) \/ ~InUsers(USERS, to)
        THEN ErrorOnly(sid, "error" :> <<"recipient not available">>)
        ELSE IF "integrity" \in DOMAIN data /\ checked.raised # "none"
        THEN Result(USERS, nregs, <<>>, <<>>, checked.raised)
        ELSE IF "integrity" \in DOMAIN data /\ ~checked.is_valid
        THEN ErrorOnly(sid, checked.result)
        ELSE LET secured_data == wrap_outgoing_message(data, now, secret, seal_raises)
                 recipient_sid == Info(USERS, to)["sid"]
             IN  Result(USERS, nregs,
                        <<Emit("new_encrypted_message", recipient_sid, secured_data),
                          Emit("new_encrypted_message", sid, secured_data),
                          Emit("message_delivered", sid, ("to" :> to) @@ ("ok" :> TrueV))>>,
                        <<>>, IF seal_raises THEN "seal" ELSE "none")

-----------------------------------------------------------------------------
(* pqc_utils.py: the KEM provider.  Each function returns what the code    *)
(* returns, the exception it raised ("none" when none) and the primitives  *)
(* it called, in order.                                                    *)

Algorithms == {"kyber", "frodo"}

\* An algorithm name outside the supported set.
OtherAlgorithm == "ntru"

\* The draws of key generation in one process and in an intermediary's.
KeyIds == {"1", "2"}
ForeignId == "e"

\* hashlib.sha256(b"simulated_kyber_shared_secret").digest()[:32]
SIMULATED_KYBER_SECRET == Sha256(<<"simulated_kyber_shared_secret">>)

\* hashlib.sha256(b"simulated_frodo_shared_secret").digest()[:32]
SIMULATED_FRODO_SECRET == Sha256(<<"simulated_frodo_shared_secret">>)

\* pqcrypto.kem.<algorithm>: generate_keypair, encrypt and decrypt.  A key or
\* ciphertext of another algorithm has the wrong length and raises.
LibPublic(algorithm, k) == <<"pk", algorithm, k>>
LibSecret(algorithm, k) == <<"sk", algorithm, k>>

\* The names of the library calls, as pqc_utils imports them.
EncapsName(algorithm) == IF algorithm = "kyber" THEN "kyber_encaps" ELSE "frodo_encaps"
DecapsName(algorithm) == IF algorithm = "kyber" THEN "kyber_decaps" ELSE "frodo_decaps"

IsLib(kind, algorithm, b) == Len(b) >= 3 /\ b[1] = kind /\ b[2] = algorithm

LibEncaps(algorithm, public_key, r) ==
    IF IsLib("pk", algorithm, public_key)
    THEN [raised |-> "none",
          ct |-> <<"ct", algorithm, public_key[3], r>>,
          ss |-> <<"ss", algorithm, public_key[3], r>>,
          plog |-> <<EncapsName(algorithm)>>]
    ELSE [raised |-> "LibError", ct |-> NoneV, ss |-> NoneV,
          plog |-> <<EncapsName(algorithm)>>]

LibDecaps(algorithm, secret_key, ciphertext) ==
    IF IsLib("sk", algorithm, secret_key) /\ IsLib("ct", algorithm, ciphertext)
    THEN [raised |-> "none",
          ss |-> IF secret_key[3] = ciphertext[3]
                 THEN <<"ss", algorithm, ciphertext[3], ciphertext[4]>>
                 ELSE <<"ss", algorithm, secret_key[3], "rejected">>,
          plog |-> <<DecapsName(algorithm)>>]
    ELSE [raised |-> "LibError", ss |-> NoneV, plog |-> <<DecapsName(algorithm)>>]

\* os.urandom(n) for the simulated keys and ciphertexts.
SimBytes(what, algorithm, k) == <<"urandom", what, algorithm, k>>

Keypair(pk, sk, plog) == [raised |-> "none", pk |-> pk, sk |-> sk, plog |-> plog]

generate_kyber_keypair(k) ==
    IF has.kyber
    THEN Keypair(LibPublic("kyber", k), LibSecret("kyber", k), <<"kyber_generate">>)
    ELSE Keypair(SimBytes("pk", "kyber", k), SimBytes("sk", "kyber", k),
                 <<"urandom", "urandom">>)

kyber_encapsulate_with_pk(public_key, r) ==
    IF has.kyber
    THEN LibEncaps("kyber", public_key, r)
    ELSE [raised |-> "none", ct |-> SimBytes("ct", "kyber", r),
          ss |-> SIMULATED_KYBER_SECRET, plog |-> <<"urandom">>]

\* kyber_decapsulate_with_sk answering with the other algorithm's constant.
kyber_decapsulate_wrong_label(secret_key, ciphertext) ==
    IF has.kyber
    THEN LibDecaps("kyber", secret_key, ciphertext)
    ELSE [raised |-> "none", ss |-> SIMULATED_FRODO_SECRET, plog |-> <<>>]

kyber_decapsulate_with_sk(secret_key, ciphertext) ==
    IF has.kyber
    THEN LibDecaps("kyber", secret_key, ciphertext)
    ELSE [raised |-> "none", ss |-> SIMULATED_KYBER_SECRET, plog |-> <<>>]

generate_frodo_keypair(k) ==
    IF has.frodo
    THEN Keypair(LibPublic("frodo", k), LibSecret("frodo", k), <<"frodo_generate">>)
    ELSE Keypair(SimBytes("pk", "frodo", k), SimBytes("sk", "frodo", k),
                 <<"urandom", "urandom">>)

frodo_encapsulate_with_pk(public_key, r) ==
    IF has.frodo
    THEN LibEncaps("frodo", public_key, r)
    ELSE [raised |-> "none", ct |-> SimBytes("ct", "frodo", r),
          ss |-> SIMULATED_FRODO_SECRET, plog |-> <<"urandom">>]

frodo_decapsulate_with_sk(secret_key, ciphertext) ==
    IF has.frodo
    THEN LibDecaps("frodo", secret_key, ciphertext)
    ELSE [raised |-> "none", ss |-> SIMULATED_FRODO_SECRET, plog |-> <<>>]

\* raise ValueError("Unsupported PQC algorithm")
UnsupportedKeypair == [raised |-> "ValueError", pk |-> NoneV, sk |-> NoneV, plog |-> <<>>]
UnsupportedEncaps == [raised |-> "ValueError", ct |-> NoneV, ss |-> NoneV, plog |-> <<>>]
UnsupportedDecaps == [raised |-> "ValueError", ss |-> NoneV, plog |-> <<>>]

generate_pqc_keypair(algorithm, k) ==
    IF algorithm = "kyber" THEN generate_kyber_keypair(k)
    ELSE IF algorithm = "frodo" THEN generate_frodo_keypair(k)
    ELSE UnsupportedKeypair

\* pqc_encapsulate treating every unknown algorithm as the default one.
pqc_encapsulate_defaulting(public_key, algorithm, r) ==
    IF algorithm = "frodo" THEN frodo_encapsulate_with_pk(public_key, r)
    ELSE kyber_encapsulate_with_pk(public_key, r)

pqc_encapsulate(public_key, algorithm, r) ==
    IF algorithm = "kyber" THEN kyber_encapsulate_with_pk(public_key, r)
    ELSE IF algorithm = "frodo" THEN frodo_encapsulate_with_pk(public_key, r)
    ELSE UnsupportedEncaps

pqc_decapsulate(secret_key, ciphertext, algorithm) ==
    IF algorithm = "kyber" THEN kyber_decapsulate_with_sk(secret_key, ciphertext)
    ELSE IF algorithm = "frodo" THEN frodo_decapsulate_with_sk(secret_key, ciphertext)
    ELSE UnsupportedDecaps

-----------------------------------------------------------------------------
(* dilithium_utils.py: the signature provider *)

\* hashlib.sha256(b"simulated_dilithium_secret").digest()
SIMULATED_SIGN_SECRET == Sha256(<<"simulated_dilithium_secret">>)

generate_dilithium_keypair(k) ==
    IF has.dilithium
    THEN [pk |-> <<"dpk", k>>, sk |-> <<"dsk", k>>]
    ELSE [pk |-> SimBytes("pk", "dilithium", k), sk |-> SimBytes("sk", "dilithium", k)]

\* pqcrypto.sign.dilithium2.sign: unforgeable without the secret key.
LibSign(secret_key, message) == <<"sig", secret_key[2]>> \o message

\* Whether signature is what the holder of public_key's secret key signs for
\* message.
LibSignatureValid(public_key, message, signature) ==
    /\ Len(public_key) = 2
    /\ public_key[1] = "dpk"
    /\ signature = <<"sig", public_key[2]>> \o message

dilithium_sign_message(secret_key, message) ==
    IF has.dilithium
    THEN LibSign(secret_key, message)
    ELSE Sha256(message \o SIMULATED_SIGN_SECRET)

\* Lines 68-73 return True unless dilithium_verify raises and never read what
\* it returns.  invalid_raises tells whether the installed library reports
\* an invalid signature by raising.
dilithium_verify_signature(public_key, message, signature, invalid_raises) ==
    IF has.dilithium
    THEN LibSignatureValid(public_key, message, signature) \/ ~invalid_raises
    ELSE signature = Sha256(message \o SIMULATED_SIGN_SECRET)

-----------------------------------------------------------------------------
(* server_pqc_handshake.py and client_pqc_handshake.py *)

NoHandshake == [raised |-> "none", data |-> EmptyDict, plog |-> <<>>]

HandshakeData(pqc_algorithm, keys, dil_pk, signature) ==
    ("pqc_algorithm" :> <<pqc_algorithm>>)
        @@ ("pqc_public_key" :> keys.pk)
        @@ ("pqc_secret_key" :> keys.sk)
        @@ ("dilithium_public_key" :> dil_pk)
        @@ ("signature" :> signature)

\* server_prepare_pqc_handshake signing the secret key in place of the
\* public key.
server_prepare_signs_secret(pqc_algorithm, k, d) ==
    LET keys == generate_pqc_keypair(pqc_algorithm, k)
        dil == generate_dilithium_keypair(d)
    IN  IF keys.raised # "none"
        THEN [raised |-> keys.raised, data |-> EmptyDict, plog |-> keys.plog]
        ELSE [raised |-> "none",
              data |-> HandshakeData(pqc_algorithm, keys, dil.pk,
                                     dilithium_sign_message(dil.sk, keys.sk)),
              plog |-> keys.plog \o <<"generate_dilithium_keypair",
                                      "dilithium_sign_message">>]

server_prepare_pqc_handshake(pqc_algorithm, k, d) ==
    LET keys == generate_pqc_keypair(pqc_algorithm, k)
        dil == generate_dilithium_keypair(d)
    IN  IF keys.raised # "none"
        THEN [raised |-> keys.raised, data |-> EmptyDict, plog |-> keys.plog]
        ELSE [raised |-> "none",
              data |-> HandshakeData(pqc_algorithm, keys, dil.pk,
                                     dilithium_sign_message(dil.sk, keys.pk)),
              plog |-> keys.plog \o <<"generate_dilithium_keypair",
                                      "dilithium_sign_message">>]

NoClient ==
    [raised |-> "none", is_valid |-> FALSE, ciphertext |-> NoneV,
     shared_secret |-> NoneV, encap_pk |-> NoneV, plog |-> <<>>]

ClientResult(is_valid, enc, encap_pk, plog) ==
    [raised |-> enc.raised, is_valid |-> is_valid, ciphertext |-> enc.ct,
     shared_secret |-> enc.ss, encap_pk |-> encap_pk, plog |-> plog]

\* client_verify_and_encapsulate encapsulating before it verifies.
client_encapsulate_then_verify(handshake_data, r, invalid_raises) ==
    LET pqc_pk == handshake_data["pqc_public_key"]
        enc == pqc_encapsulate(pqc_pk, handshake_data["pqc_algorithm"][1], r)
        is_valid == dilithium_verify_signature(handshake_data["dilithium_public_key"],
                                               pqc_pk, handshake_data["signature"],
                                               invalid_raises)
        plog == <<"pqc_encapsulate">> \o enc.plog \o <<"dilithium_verify_signature">>
    IN  IF enc.raised # "none" THEN ClientResult(FALSE, enc, pqc_pk, plog)
        ELSE IF ~is_valid
        THEN ClientResult(FALSE, [UnsupportedEncaps EXCEPT !.raised = "InvalidSignature"],
                          pqc_pk, plog)
        ELSE ClientResult(TRUE, enc, pqc_pk, plog)

client_verify_and_encapsulate(handshake_data, r, invalid_raises) ==
    LET pqc_pk == handshake_data["pqc_public_key"]
        dil_pk == handshake_data["dilithium_public_key"]
        signature == handshake_data["signature"]
        algo == handshake_data["pqc_algorithm"][1]
        is_valid == dilithium_verify_signature(dil_pk, pqc_pk, signature, invalid_raises)
        enc == pqc_encapsulate(pqc_pk, algo, r)
    IN  IF ~is_valid
        THEN ClientResult(FALSE, [UnsupportedEncaps EXCEPT !.raised = "InvalidSignature"],
                          NoneV, <<"dilithium_verify_signature">>)
        ELSE ClientResult(TRUE, enc, pqc_pk,
                          <<"dilithium_verify_signature", "pqc_encapsulate">> \o enc.plog)

-----------------------------------------------------------------------------
(* The provider and handshake runs at rest *)

NoKem ==
    [algorithm |-> "none", raised |-> "none", pk |-> NoneV, sk |-> NoneV,
     ct |-> NoneV, client_secret |-> NoneV, server_secret |-> NoneV,
     call |-> "none", called_with |-> "none", uniform |-> TRUE, plog |-> <<>>]

Providers == [kyber : BOOLEAN, frodo : BOOLEAN, dilithium : BOOLEAN]

PqcIdle ==
    /\ has = [kyber |-> FALSE, frodo |-> FALSE, dilithium |-> FALSE]
    /\ kpc = "off"
    /\ krun = NoKem
    /\ hpc = "off"
    /\ handshake = NoHandshake
    /\ wire = EmptyDict
    /\ client = NoClient
    /\ server_secret = NoneV

-----------------------------------------------------------------------------
(* The server: transports connect, send events and disconnect. *)

Names == {<<"A">>, <<"B">>}
Sids == {<<"s1">>, <<"s2">>}
Pubs == {<<"p1">>, <<"p2">>}

\* Marks a key left out of a drawn payload.
AbsentV == <<"#absent">>

Drop(f) == [k \in {j \in DOMAIN f : f[j] # AbsentV} |-> f[k]]

RegisterInputs ==
    {Drop(("username" :> u) @@ ("x25519_pub_b64" :> p)) :
        u \in Names \cup {AbsentV, EmptyStr}, p \in Pubs \cup {AbsentV}}

PlainRegisterInputs ==
    {Drop(("username" :> u) @@ ("x25519_pub_b64" :> <<"p1">>)) : u \in Names \cup {AbsentV}}

SessionInputs ==
    {Drop(("from" :> f) @@ ("to" :> t)) :
        f \in Names \cup {AbsentV}, t \in Names \cup {AbsentV}}

MessageBases ==
    {Drop(("to" :> t) @@ ("from" :> f) @@ ("ciphertext_b64" :> c) @@ ("timestamp" :> ts)) :
        t \in Names \cup {AbsentV}, f \in Names \cup {AbsentV},
        c \in {AbsentV, <<"1">>}, ts \in {AbsentV, EmptyStr, <<"1">>}}

\* What a client may send as the tag of envelope b: nothing, null, an empty
\* object, a number in place of the object, the tag the server would compute,
\* a forged string, a number, no value, another type.
IntegrityVariants(b, key) ==
    LET good == generate_hmac(ContentOf(b), Get(b, "timestamp", EmptyStr), SenderOf(b), key)
        typed(t) == Put(Put(b, "integrity", DictV), "integrity.type", t)
    IN  {b,
         Put(b, "integrity", NoneV),
         Put(b, "integrity", DictV),
         Put(b, "integrity", NumV),
         Put(typed(HMAC_SHA256), "integrity.value", good),
         Put(typed(HMAC_SHA256), "integrity.value", <<"forged">>),
         Put(typed(HMAC_SHA256), "integrity.value", NumV),
         typed(HMAC_SHA256),
         Put(typed(<<"MD5">>), "integrity.value", good)}

NoEvent == [name |-> "none", sid |-> NoneV, data |-> EmptyDict, raised |-> "none"]

GuardIdle ==
    /\ gpc = "off"
    /\ msg = EmptyDict
    /\ sealedMsg = EmptyDict
    /\ tfield = "none"
    /\ gres = "none"

Init ==
    /\ secret = "k1"
    /\ oqs \in BOOLEAN
    /\ conn = [s \in Sids |-> "new"]
    /\ USERS = <<>>
    /\ nregs = 0
    /\ pc = "idle"
    /\ ev = NoEvent
    /\ pre = <<>>
    /\ out = <<>>
    /\ klog = <<>>
    /\ frame = NoFrame
    /\ GuardIdle
    /\ PqcIdle
    /\ qrun = NoQkdRun

\* The handler ran to its end: the registry it left and what it emitted.
Handled(name, sid, data, res) ==
    /\ ev' = [name |-> name, sid |-> sid, data |-> data, raised |-> res.raised]
    /\ pre' = USERS
    /\ USERS' = res.users
    /\ nregs' = res.nregs
    /\ out' = res.out
    /\ klog' = res.klog
    /\ frame' = NoFrame
    /\ pc' = "handled"
    /\ UNCHANGED <<secret, oqs>>
    /\ UNCHANGED guardVars
    /\ UNCHANGED pqcVars
    /\ UNCHANGED qkdVars

\* on_connect only logs.
Connect ==
    /\ pc = "idle"
    /\ \E s \in Sids :
        /\ conn[s] = "new"
        /\ conn' = [conn EXCEPT ![s] = "open"]
        /\ Handled("connect", s, EmptyDict, Result(USERS, nregs, <<>>, <<>>, "none"))

Disconnect ==
    /\ pc = "idle"
    /\ \E s \in Sids :
        /\ conn[s] = "open"
        /\ conn' = [conn EXCEPT ![s] = "closed"]
        /\ Handled("disconnect", s, EmptyDict, on_disconnect(s))

RegisterFrom(inputs, faults) ==
    /\ pc = "idle"
    /\ nregs < MaxRegs
    /\ \E s \in Sids, data \in inputs, keygen_raises \in faults :
        /\ conn[s] = "open"
        /\ Handled("register", s, data,
                   handle_register(s, data, keygen_raises))
    /\ UNCHANGED conn

Register == RegisterFrom(RegisterInputs, BOOLEAN)

\* Clients that all present the same classical key, with key generation
\* never raising.
RegisterPlain == RegisterFrom(PlainRegisterInputs, {FALSE})

RequestStart ==
    /\ pc = "idle"
    /\ \E s \in Sids, data \in SessionInputs, fault \in {"none", "encap", "decap"},
          r \in Coins, x \in Coins, y \in Coins :
        /\ conn[s] = "open"
        /\ Handled("request_start_session", s, data,
                   handle_request_start(s, data, fault, r, x, y))
    /\ UNCHANGED conn

StartQkd ==
    /\ pc = "idle"
    /\ \E s \in Sids, data \in SessionInputs, qkd_bits \in QkdOutputs :
        /\ conn[s] = "open"
        /\ Handled("start_qkd_session", s, data,
                   handle_start_qkd_session(s, data, qkd_bits))
    /\ UNCHANGED conn

SendMessage ==
    /\ pc = "idle"
    /\ \E s \in Sids, b \in MessageBases, now \in NowStamps,
          seal_raises \in BOOLEAN, unprintable \in BOOLEAN :
        /\ conn[s] = "open"
        /\ \E data \in IntegrityVariants(b, secret) :
            Handled("send_encrypted_message", s, data,
                    handle_encrypted_message(s, data, now, seal_raises, unprintable))
    /\ UNCHANGED conn

\* The transport has delivered the emissions; the server waits for an event.
Deliver ==
    /\ pc \in {"handled", "replayed", "redirected"}
    /\ pc' = "idle"
    /\ ev' = NoEvent
    /\ pre' = <<>>
    /\ out' = <<>>
    /\ klog' = <<>>
    /\ frame' = NoFrame
    /\ UNCHANGED <<secret, oqs, conn, USERS, nregs>>
    /\ UNCHANGED guardVars
    /\ UNCHANGED pqcVars
    /\ UNCHANGED qkdVars

Next ==
    \/ Connect
    \/ Disconnect
    \/ Register
    \/ RequestStart
    \/ StartQkd
    \/ SendMessage
    \/ Deliver

Spec == Init /\ [][Next]_vars

\* The server while no client sends a message.
NextSessions ==
    \/ Connect
    \/ Disconnect
    \/ Register
    \/ RequestStart
    \/ StartQkd
    \/ Deliver

SpecSessions == Init /\ [][NextSessions]_vars

\* The server while no client asks for a session, oqs not installed.
InitMessages == Init /\ oqs = FALSE

NextMessages ==
    \/ Connect
    \/ Disconnect
    \/ RegisterPlain
    \/ SendMessage
    \/ Deliver

SpecMessages == InitMessages /\ [][NextMessages]_vars

\* The event just handled was an envelope with an integrity field that the
\* handler accepted and forwarded.
AcceptedSealed ==
    /\ pc = "handled"
    /\ ev.name = "send_encrypted_message"
    /\ "integrity" \in DOMAIN ev.data
    /\ \E i \in DOMAIN out : out[i].event = "new_encrypted_message"

\* The envelope just accepted arrives again, unchanged, from any connected
\* transport: handle_encrypted_message runs on it as on any other event.
Replay ==
    /\ AcceptedSealed
    /\ \E s \in Sids, now \in NowStamps, seal_raises \in BOOLEAN, unprintable \in BOOLEAN :
        /\ conn[s] = "open"
        /\ LET res == handle_encrypted_message(s, ev.data, now, seal_raises, unprintable)
           IN  /\ ev' = [name |-> "send_encrypted_message", sid |-> s,
                         data |-> ev.data, raised |-> res.raised]
               /\ pre' = USERS
               /\ USERS' = res.users
               /\ nregs' = res.nregs
               /\ out' = res.out
               /\ klog' = res.klog
               /\ frame' = NoFrame
               /\ pc' = "replayed"
    /\ UNCHANGED <<secret, oqs, conn>>
    /\ UNCHANGED guardVars
    /\ UNCHANGED pqcVars
    /\ UNCHANGED qkdVars

NextReplay ==
    \/ Connect
    \/ Disconnect
    \/ RegisterPlain
    \/ SendMessage
    \/ Replay
    \/ Deliver

SpecReplay == InitMessages /\ [][NextReplay]_vars

\* What a client may put in the iv_b64 field, or leave out.
IvTexts == {AbsentV, <<"1">>}

\* The tagged envelope just handled arrives again from any connected
\* transport with another recipient, another iv_b64, or both, and every
\* other field as it was.
Redirect ==
    /\ pc = "handled"
    /\ ev.name = "send_encrypted_message"
    /\ "integrity" \in DOMAIN ev.data
    /\ \E s \in Sids, t \in Names \cup {AbsentV}, iv \in IvTexts,
          seal_raises \in BOOLEAN, unprintable \in BOOLEAN :
        /\ conn[s] = "open"
        /\ LET data == Drop(("to" :> t) @@ ("iv_b64" :> iv) @@ ev.data)
               \* The clock is read only for an envelope without a timestamp,
               \* and such an envelope does not open.
               now == CHOOSE stamp \in NowStamps : TRUE
               res == handle_encrypted_message(s, data, now, seal_raises, unprintable)
           IN  /\ data # ev.data
               /\ ev' = [name |-> "send_encrypted_message", sid |-> s,
                         data |-> data, raised |-> res.raised]
               /\ pre' = USERS
               /\ USERS' = res.users
               /\ nregs' = res.nregs
               /\ out' = res.out
               /\ klog' = res.klog
               /\ frame' = NoFrame
               /\ pc' = "redirected"
    /\ UNCHANGED <<secret, oqs, conn>>
    /\ UNCHANGED guardVars
    /\ UNCHANGED pqcVars
    /\ UNCHANGED qkdVars

NextRedirect ==
    \/ Connect
    \/ Disconnect
    \/ RegisterPlain
    \/ SendMessage
    \/ Redirect
    \/ Deliver

SpecRedirect == InitMessages /\ [][NextRedirect]_vars

-----------------------------------------------------------------------------
(* The guard harness: draw an envelope, seal it, change one field, open it. *)

Alphabet == {"1", "|"}

RECURSIVE Texts(_)
Texts(n) ==
    IF n = 0 THEN {EmptyStr}
    ELSE LET shorter == Texts(n - 1)
         IN  shorter \cup {Append(t, c) : t \in shorter, c \in Alphabet}

FieldTexts == Texts(MaxLen)
SenderTexts == FieldTexts \cup {Unknown}

GuardKeys == {"from", "ciphertext_b64", "message", "timestamp"}

ValuesOf(k) == IF k = "from" THEN SenderTexts ELSE FieldTexts

\* Every dict over a subset of the drawn keys.
Envelopes ==
    {m \in UNION {[ks -> SenderTexts] : ks \in SUBSET GuardKeys} :
        \A k \in DOMAIN m : m[k] \in ValuesOf(k)}

ServerIdle ==
    /\ oqs = FALSE
    /\ conn = [s \in Sids |-> "new"]
    /\ USERS = <<>>
    /\ nregs = 0
    /\ pc = "idle"
    /\ ev = NoEvent
    /\ pre = <<>>
    /\ out = <<>>
    /\ klog = <<>>
    /\ frame = NoFrame

InitGuard ==
    /\ secret \in Secrets
    /\ gpc = "new"
    /\ msg \in Envelopes
    /\ sealedMsg = EmptyDict
    /\ tfield = "none"
    /\ gres = "none"
    /\ ServerIdle
    /\ PqcIdle
    /\ qrun = NoQkdRun

GSeal ==
    /\ gpc = "new"
    /\ gres = "none"
    /\ \E now \in NowStamps :
        /\ msg' = add_message_integrity(msg, now, secret)
        /\ sealedMsg' = msg'
    /\ gpc' = "sealed"
    /\ UNCHANGED <<secret, tfield, gres>>
    /\ UNCHANGED serverVars
    /\ UNCHANGED pqcVars
    /\ UNCHANGED qkdVars

\* One of the protected fields is set to another value or removed.
GTamper ==
    /\ gpc = "sealed"
    /\ gres = "none"
    /\ \E k \in GuardKeys :
        /\ \/ \E v \in ValuesOf(k) : msg' = Put(msg, k, v)
           \/ msg' = Del(msg, k)
        /\ msg' # msg
        /\ tfield' = k
    /\ gpc' = "tampered"
    /\ UNCHANGED <<secret, sealedMsg, gres>>
    /\ UNCHANGED serverVars
    /\ UNCHANGED pqcVars
    /\ UNCHANGED qkdVars

GOpen ==
    /\ gres = "none"
    /\ gres' = verify_message_integrity(msg, secret)
    /\ UNCHANGED <<secret, gpc, msg, sealedMsg, tfield>>
    /\ UNCHANGED serverVars
    /\ UNCHANGED pqcVars
    /\ UNCHANGED qkdVars

NextGuard == GSeal \/ GTamper \/ GOpen

SpecGuard == InitGuard /\ [][NextGuard]_vars

-----------------------------------------------------------------------------
(* A KEM run as compare_pqc.test_algorithm makes it: generate, encapsulate, *)
(* decapsulate, each call with an algorithm name of its own.                *)

AlgorithmNames == Algorithms \cup {OtherAlgorithm}

InitProviders ==
    /\ secret = "k1"
    /\ GuardIdle
    /\ ServerIdle
    /\ has \in Providers
    /\ krun = NoKem
    /\ handshake = NoHandshake
    /\ wire = EmptyDict
    /\ client = NoClient
    /\ server_secret = NoneV
    /\ qrun = NoQkdRun

InitKem == InitProviders /\ kpc = "new" /\ hpc = "off"

KemStepTo(ok, res) == IF res.raised = "none" THEN ok ELSE "raised"

KGen ==
    /\ kpc = "new"
    /\ \E algorithm \in AlgorithmNames, k \in KeyIds :
        LET res == generate_pqc_keypair(algorithm, k)
        IN  /\ krun' = [NoKem EXCEPT !.algorithm = algorithm, !.raised = res.raised,
                                    !.pk = res.pk, !.sk = res.sk,
                                    !.call = "generate", !.called_with = algorithm,
                                    !.plog = res.plog]
            /\ kpc' = KemStepTo("keyed", res)
    /\ UNCHANGED <<secret, has, hpc, handshake, wire, client, server_secret>>
    /\ UNCHANGED guardVars
    /\ UNCHANGED qkdVars
    /\ UNCHANGED serverVars

KEncap ==
    /\ kpc = "keyed"
    /\ \E algorithm \in AlgorithmNames, r \in Coins :
        LET res == pqc_encapsulate(krun.pk, algorithm, r)
        IN  /\ krun' = [krun EXCEPT !.raised = res.raised, !.ct = res.ct,
                                  !.client_secret = res.ss,
                                  !.call = "encapsulate", !.called_with = algorithm,
                                  !.uniform = (algorithm = krun.algorithm),
                                  !.plog = res.plog]
            /\ kpc' = KemStepTo("encapsulated", res)
    /\ UNCHANGED <<secret, has, hpc, handshake, wire, client, server_secret>>
    /\ UNCHANGED guardVars
    /\ UNCHANGED qkdVars
    /\ UNCHANGED serverVars

KDecap ==
    /\ kpc = "encapsulated"
    /\ \E algorithm \in AlgorithmNames :
        LET res == pqc_decapsulate(krun.sk, krun.ct, algorithm)
        IN  /\ krun' = [krun EXCEPT !.raised = res.raised, !.server_secret = res.ss,
                                  !.call = "decapsulate", !.called_with = algorithm,
                                  !.uniform = (krun.uniform /\ algorithm = krun.algorithm),
                                  !.plog = res.plog]
            /\ kpc' = KemStepTo("decapsulated", res)
    /\ UNCHANGED <<secret, has, hpc, handshake, wire, client, server_secret>>
    /\ UNCHANGED guardVars
    /\ UNCHANGED qkdVars
    /\ UNCHANGED serverVars

NextKem == KGen \/ KEncap \/ KDecap

SpecKem == InitKem /\ [][NextKem]_vars

-----------------------------------------------------------------------------
(* A signed handshake as test_signed_pqc_handshake.py makes it, with an      *)
(* intermediary between the server and the client.                           *)

InitHandshake == InitProviders /\ kpc = "off" /\ hpc = "new"

HPrepare ==
    /\ hpc = "new"
    /\ \E pqc_algorithm \in AlgorithmNames, k \in KeyIds, d \in KeyIds :
        /\ handshake' = server_prepare_pqc_handshake(pqc_algorithm, k, d)
        /\ wire' = handshake'.data
        /\ hpc' = IF handshake'.raised = "none" THEN "prepared" ELSE "raised"
    /\ UNCHANGED <<secret, has, kpc, krun, client, server_secret>>
    /\ UNCHANGED guardVars
    /\ UNCHANGED qkdVars
    /\ UNCHANGED serverVars

\* What the intermediary holds: keys of its own making.
ForeignKemKeys ==
    {LibPublic(a, ForeignId) : a \in Algorithms} \cup {SimBytes("pk", "kyber", ForeignId)}

ForeignDilSecret == <<"dsk", ForeignId>>
ForeignDilPublic == <<"dpk", ForeignId>>

\* The signatures the intermediary can compute for message: with its own
\* signing key, and with the constant of the simulated mode, which is in
\* the source.
ForgedSignatures(message) ==
    {LibSign(ForeignDilSecret, message), Sha256(message \o SIMULATED_SIGN_SECRET)}

\* Every handshake_data the intermediary can pass on in place of w.
Rewritten(w) ==
    {[w EXCEPT !["pqc_algorithm"] = <<a>>, !["pqc_public_key"] = p,
               !["dilithium_public_key"] = q, !["signature"] = s] :
        a \in {w["pqc_algorithm"][1]} \cup AlgorithmNames,
        p \in {w["pqc_public_key"]} \cup ForeignKemKeys,
        q \in {w["dilithium_public_key"], ForeignDilPublic},
        s \in {w["signature"], <<"junk">>}
                 \cup UNION {ForgedSignatures(m) :
                               m \in {w["pqc_public_key"]} \cup ForeignKemKeys}}

WireIntact == wire = handshake.data

HIntercept ==
    /\ hpc = "prepared"
    /\ WireIntact
    /\ \E w \in Rewritten(wire) :
        /\ w # wire
        /\ wire' = w
    /\ UNCHANGED <<secret, has, kpc, krun, hpc, handshake, client, server_secret>>
    /\ UNCHANGED guardVars
    /\ UNCHANGED qkdVars
    /\ UNCHANGED serverVars

HClient ==
    /\ hpc = "prepared"
    /\ \E r \in Coins, invalid_raises \in BOOLEAN :
        /\ client' = client_verify_and_encapsulate(wire, r, invalid_raises)
        /\ hpc' = IF client'.raised = "none" THEN "received" ELSE "rejected"
    /\ UNCHANGED <<secret, has, kpc, krun, handshake, wire, server_secret>>
    /\ UNCHANGED guardVars
    /\ UNCHANGED qkdVars
    /\ UNCHANGED serverVars

\* Lines 12-16 of the test script: the server decapsulates with the secret
\* key and the algorithm of its own handshake.
HServer ==
    /\ hpc = "received"
    /\ LET res == pqc_decapsulate(handshake.data["pqc_secret_key"], client.ciphertext,
                                  handshake.data["pqc_algorithm"][1])
       IN  /\ server_secret' = res.ss
           /\ hpc' = IF res.raised = "none" THEN "done" ELSE "failed"
    /\ UNCHANGED <<secret, has, kpc, krun, handshake, wire, client>>
    /\ UNCHANGED guardVars
    /\ UNCHANGED qkdVars
    /\ UNCHANGED serverVars

NextHandshake == HPrepare \/ HIntercept \/ HClient \/ HServer

SpecHandshake == InitHandshake /\ [][NextHandshake]_vars

-----------------------------------------------------------------------------
(* The session handlers as the server runs them: each event is handled in  *)
(* a task of its own (async_mode "eventlet", app.py:102-108), so another    *)
(* event's handler can run while this one is suspended.  The hybrid handler *)
(* is cut after its presence check and after its KEM step, the QKD handler  *)
(* after its presence check; on_disconnect may run at either cut.           *)

\* Lines 386-397: validation, presence check and the two lookups.
RsCheck ==
    /\ pc = "idle"
    /\ \E s \in Sids, data \in SessionInputs :
        /\ conn[s] = "open"
        /\ LET initiator == Get(data, "from", NoneV)
               peer == Get(data, "to", NoneV)
           IN  IF \/ ~Truthy(initiator) \/ ~Truthy(peer)
                  \/ ~InUsers(USERS, initiator) \/ ~InUsers(USERS, peer)
               THEN Handled("request_start_session", s, data,
                            handle_request_start(s, data, "none", "c1", "c1", "c1"))
               ELSE /\ ev' = [name |-> "request_start_session", sid |-> s,
                              data |-> data, raised |-> "none"]
                    /\ pre' = USERS
                    /\ out' = <<>>
                    /\ klog' = <<>>
                    /\ frame' = [NoFrame EXCEPT
                                    !.initiator_info = Info(USERS, initiator),
                                    !.peer_info = Info(USERS, peer)]
                    /\ pc' = "checked"
                    /\ UNCHANGED <<secret, oqs, USERS, nregs>>
                    /\ UNCHANGED guardVars
                    /\ UNCHANGED pqcVars
                    /\ UNCHANGED qkdVars
    /\ UNCHANGED conn

\* Lines 399-431: the KEM step on the entry looked up at line 397.
RsDerive ==
    /\ pc = "checked"
    /\ ev.name = "request_start_session"
    /\ \E fault \in {"none", "encap", "decap"}, r \in Coins, x \in Coins, y \in Coins :
        LET kem == KemStep(frame.peer_info, fault, r, x, y)
        IN  /\ frame' = [frame EXCEPT !.kem = kem]
            /\ klog' = kem.klog
            /\ ev' = [ev EXCEPT !.raised = kem.raised]
    /\ pc' = "derived"
    /\ UNCHANGED <<secret, oqs, conn, USERS, nregs, pre, out>>
    /\ UNCHANGED guardVars
    /\ UNCHANGED pqcVars
    /\ UNCHANGED qkdVars

\* Lines 433-486: the emissions, to the addresses looked up at 396-397.
RsDeliver ==
    /\ pc = "derived"
    /\ LET once == KyberEmissions(ev.sid, Get(ev.data, "from", NoneV), Get(ev.data, "to", NoneV),
                                  frame.initiator_info, frame.peer_info, frame.kem)
       IN  out' = out \o once \o once
    /\ pc' = "handled"
    /\ UNCHANGED <<secret, oqs, conn, USERS, nregs, ev, pre, klog, frame>>
    /\ UNCHANGED guardVars
    /\ UNCHANGED pqcVars
    /\ UNCHANGED qkdVars

\* Lines 509-517 of handle_start_qkd_session.
QCheck ==
    /\ pc = "idle"
    /\ \E s \in Sids, data \in SessionInputs :
        /\ conn[s] = "open"
        /\ LET initiator == Get(data, "from", NoneV)
               peer == Get(data, "to", NoneV)
           IN  IF \/ ~Truthy(initiator) \/ ~Truthy(peer)
                  \/ ~InUsers(USERS, initiator) \/ ~InUsers(USERS, peer)
               THEN Handled("start_qkd_session", s, data,
                            handle_start_qkd_session(s, data, <<>>))
               ELSE /\ ev' = [name |-> "start_qkd_session", sid |-> s,
                              data |-> data, raised |-> "none"]
                    /\ pre' = USERS
                    /\ out' = <<>>
                    /\ klog' = <<>>
                    /\ frame' = NoFrame
                    /\ pc' = "checked"
                    /\ UNCHANGED <<secret, oqs, USERS, nregs>>
                    /\ UNCHANGED guardVars
                    /\ UNCHANGED pqcVars
                    /\ UNCHANGED qkdVars
    /\ UNCHANGED conn

\* Lines 519-540: derivation, then USERS[initiator]["sid"] and
\* USERS[peer]["sid"] read from the registry as it is now (a KeyError when
\* the name is gone), then the two emissions.
QFinish ==
    /\ pc = "checked"
    /\ ev.name = "start_qkd_session"
    /\ \E qkd_bits \in QkdOutputs :
        IF InUsers(USERS, Get(ev.data, "from", NoneV)) /\ InUsers(USERS, Get(ev.data, "to", NoneV))
        THEN /\ out' = out \o handle_start_qkd_session(ev.sid, ev.data, qkd_bits).out
             /\ ev' = ev
        ELSE /\ out' = out
             /\ ev' = [ev EXCEPT !.raised = "KeyError"]
    /\ klog' = <<"qkd", "sha256">>
    /\ pc' = "handled"
    /\ UNCHANGED <<secret, oqs, conn, USERS, nregs, pre, frame>>
    /\ UNCHANGED guardVars
    /\ UNCHANGED pqcVars
    /\ UNCHANGED qkdVars

\* on_disconnect of a transport while a session handler is suspended.
LeaveDuring ==
    /\ pc \in {"checked", "derived"}
    /\ \E s \in Sids :
        /\ conn[s] = "open"
        /\ conn' = [conn EXCEPT ![s] = "closed"]
        /\ LET res == on_disconnect(s)
               k == FirstOfSid(USERS, s)
           IN  /\ USERS' = res.users
               /\ out' = out \o res.out
               /\ frame' = IF k = 0 THEN frame
                           ELSE [frame EXCEPT
                                   !.left = @ \cup {[username |-> USERS[k].username,
                                                     sid |-> s, at |-> pc]}]
    /\ UNCHANGED <<secret, oqs, nregs, pc, ev, pre, klog>>
    /\ UNCHANGED guardVars
    /\ UNCHANGED pqcVars
    /\ UNCHANGED qkdVars

NextInterleaved ==
    \/ Connect
    \/ Disconnect
    \/ Register
    \/ RsCheck
    \/ RsDerive
    \/ RsDeliver
    \/ QCheck
    \/ QFinish
    \/ LeaveDuring
    \/ Deliver

SpecInterleaved == Init /\ [][NextInterleaved]_vars

-----------------------------------------------------------------------------
(* generate_qkd_key run on its own: the sender's draws are made first, the  *)
(* receiver's draws and the error_rate with each call.                      *)

QkdLengths == 0..QkdN

InitQkd ==
    /\ secret = "k1"
    /\ GuardIdle
    /\ ServerIdle
    /\ PqcIdle
    /\ \E n \in QkdLengths :
        \E ab \in [1..n -> Bits], aB \in [1..n -> Bases], bB \in [1..n -> Bases] :
            qrun = [NoQkdRun EXCEPT !.stage = "drawn", !.alice_bits = ab,
                                    !.alice_bases = aB, !.bob_bases = bB]

\* generate_qkd_key(n, error_rate) with the sender's draws in hand.
QGenerate ==
    /\ qrun.stage = "drawn"
    /\ LET n == Len(qrun.alice_bits)
       IN  \E m \in [1..n -> Bits], u \in [1..n -> NoiseDraws], e \in ErrorRates :
            qrun' = [qrun EXCEPT
                       !.stage = "once",
                       !.error_rate = e,
                       !.bob_results = BobResults(qrun.alice_bits, qrun.alice_bases,
                                                  qrun.bob_bases, m, u, e),
                       !.key = generate_qkd_key(qrun.alice_bits, qrun.alice_bases,
                                                qrun.bob_bases, m, u, e)]
    /\ UNCHANGED secret
    /\ UNCHANGED guardVars
    /\ UNCHANGED serverVars
    /\ UNCHANGED pqcVars

\* A second run on the same sender bits and basis sequences with receiver
\* draws and an error_rate of its own.
QAgain ==
    /\ qrun.stage = "once"
    /\ LET n == Len(qrun.alice_bits)
       IN  \E m \in [1..n -> Bits], u \in [1..n -> NoiseDraws], e \in ErrorRates :
            qrun' = [qrun EXCEPT
                       !.stage = "twice",
                       !.bob_results2 = BobResults(qrun.alice_bits, qrun.alice_bases,
                                                   qrun.bob_bases, m, u, e),
                       !.key2 = generate_qkd_key(qrun.alice_bits, qrun.alice_bases,
                                                 qrun.bob_bases, m, u, e)]
    /\ UNCHANGED secret
    /\ UNCHANGED guardVars
    /\ UNCHANGED serverVars
    /\ UNCHANGED pqcVars

NextQkd == QGenerate \/ QAgain

SpecQkd == InitQkd /\ [][NextQkd]_vars

-----------------------------------------------------------------------------
(* Claims about the integrity guard, checked under SpecGuard. *)

Opened == gres # "none"

\* The three values the tag is computed over.
SignedTriple(m) == <<ContentOf(m), Get(m, "timestamp", EmptyStr), SenderOf(m)>>

\* C1: opening an envelope just sealed under the same secret succeeds,
\* whatever timestamp value the envelope carried before sealing.
C1_SealOpenRoundTrip ==
    (gpc = "sealed" /\ Opened) => gres = "Ok"

\* The change made after sealing is one the claim speaks of: the timestamp or
\* the sender field set to another value or removed, or the content changed.
ChangedProtectedField ==
    /\ gpc = "tampered"
    /\ \/ tfield \in {"timestamp", "from"}
       \/ ContentOf(msg) # ContentOf(sealedMsg)

C5_NoIntegrityIsMissing ==
    (Opened /\ "integrity" \notin DOMAIN msg) => gres = "Missing"

\* An unsealed envelope with content, timestamp and sender is opened.
C5_Witness ==
    /\ Opened
    /\ "integrity" \notin DOMAIN msg
    /\ {"from", "ciphertext_b64", "timestamp"} \subseteq DOMAIN msg
    /\ gres = "Missing"

-----------------------------------------------------------------------------
(* Claims about the handlers.  ev is the event just handled, pre the        *)
(* registry the handler found, out its emissions.                           *)

Emissions(event) == {i \in DOMAIN out : out[i].event = event}

EmittedTo(event, room) == \E i \in Emissions(event) : out[i].room = room

KeyEvents == {"kyber_shared_for_initiator", "kyber_ready_peer", "qkd_shared_key"}

EvFrom == Get(ev.data, "from", NoneV)
EvTo == Get(ev.data, "to", NoneV)

\* Both parties of the session request just handled were registered.
BothRegistered == InUsers(pre, EvFrom) /\ InUsers(pre, EvTo)

\* The message just handled named a registered recipient.
RecipientRegistered ==
    /\ ev.name = "send_encrypted_message"
    /\ Truthy(EvTo)
    /\ InUsers(pre, EvTo)

\* C3: a send_encrypted_message whose integrity field does not open Ok gets
\* an error on the sending transport, and neither new_encrypted_message nor
\* message_delivered is emitted for it.
C3_StrictReceive ==
    (/\ ev.name = "send_encrypted_message"
     /\ "integrity" \in DOMAIN ev.data
     /\ verify_message_integrity(ev.data, secret) # "Ok")
    => /\ EmittedTo("error", ev.sid)
       /\ Emissions("new_encrypted_message") = {}
       /\ Emissions("message_delivered") = {}

\* C4: a message without an integrity field to a registered recipient is
\* forwarded to the recipient's transport and to the sending transport with
\* an integrity field that opens Ok (stated for the runs where sealing did
\* not raise).
C4_LegacyForwardSealed ==
    (/\ RecipientRegistered
     /\ "integrity" \notin DOMAIN ev.data
     /\ ev.raised = "none")
    => /\ \E i \in Emissions("new_encrypted_message") :
            /\ out[i].room = Info(pre, EvTo)["sid"]
            /\ verify_message_integrity(out[i].payload, secret) = "Ok"
       /\ \E i \in Emissions("new_encrypted_message") :
            /\ out[i].room = ev.sid
            /\ verify_message_integrity(out[i].payload, secret) = "Ok"

\* C6: a request_start_session between two registered identities sends
\* kyber_shared_for_initiator to the initiator's transport and
\* kyber_ready_peer to the peer's, and every such pair carries the same
\* ciphertext and equal shared secrets, on the real, the simulated and the
\* exception path.
C6_HybridAgreement ==
    (ev.name = "request_start_session" /\ BothRegistered)
    => /\ \E i \in Emissions("kyber_shared_for_initiator") :
            out[i].room = Info(pre, EvFrom)["sid"]
       /\ \E j \in Emissions("kyber_ready_peer") :
            out[j].room = Info(pre, EvTo)["sid"]
       /\ \A i \in Emissions("kyber_shared_for_initiator"),
             j \in Emissions("kyber_ready_peer") :
            /\ out[i].payload["cipher_b64"] = out[j].payload["cipher_b64"]
            /\ b64decode(out[i].payload["kyber_ss_b64"])
                   = b64decode(out[j].payload["kyber_ss_b64"])

\* With oqs present, a session between two different registered identities
\* whose secrets come from encapsulation and decapsulation.
C6_Witness ==
    /\ ev.name = "request_start_session"
    /\ BothRegistered
    /\ EvFrom # EvTo
    /\ klog = <<"encap", "decap">>
    /\ EmittedTo("kyber_ready_peer", Info(pre, EvTo)["sid"])

\* C7: a start_qkd_session between two registered identities sends
\* qkd_shared_key to both transports with one 32-byte key, each payload
\* naming the other party as peer.
C7_QkdAgreement ==
    (ev.name = "start_qkd_session" /\ BothRegistered)
    => /\ \E i \in Emissions("qkd_shared_key") :
            /\ out[i].room = Info(pre, EvFrom)["sid"]
            /\ out[i].payload["peer"] = EvTo
       /\ \E j \in Emissions("qkd_shared_key") :
            /\ out[j].room = Info(pre, EvTo)["sid"]
            /\ out[j].payload["peer"] = EvFrom
       /\ \A i, j \in Emissions("qkd_shared_key") :
            /\ out[i].payload["shared_b64"] = out[j].payload["shared_b64"]
            /\ NumBytes(b64decode(out[i].payload["shared_b64"])) = 32
            /\ <<out[i].room, out[i].payload["peer"]>>
                   \in {<<Info(pre, EvFrom)["sid"], EvTo>>,
                        <<Info(pre, EvTo)["sid"], EvFrom>>}

\* A QKD session between two identities registered from different transports.
C7_Witness ==
    /\ ev.name = "start_qkd_session"
    /\ BothRegistered
    /\ EvFrom # EvTo
    /\ Info(pre, EvFrom)["sid"] # Info(pre, EvTo)["sid"]
    /\ Cardinality(Emissions("qkd_shared_key")) = 2

\* C8: every entry of the registry is bound to a transport that is connected.
C8_PresenceInvariant ==
    \A i \in DOMAIN USERS : conn[USERS[i].info["sid"]] = "open"

\* The register event just handled passed validation.
RegisterAccepted ==
    /\ ev.name = "register"
    /\ Truthy(Get(ev.data, "username", NoneV))
    /\ Truthy(Get(ev.data, "x25519_pub_b64", NoneV))

OneEntryPerIdentity ==
    \A i, j \in DOMAIN USERS : USERS[i].username = USERS[j].username => i = j

\* The public and the private keys held anywhere in registry U.
KeysIn(U) ==
    UNION {{U[i].info["kyber.public"], U[i].info["kyber.private"]} :
             i \in {k \in DOMAIN U : "kyber" \in DOMAIN U[k].info}}

C10_NoKeyForAbsent ==
    (ev.name \in {"request_start_session", "start_qkd_session"} /\ ~BothRegistered)
    => /\ klog = <<>>
       /\ \A i \in DOMAIN out : out[i].event \notin KeyEvents

\* A registered initiator asks for a hybrid session with a named peer that is
\* not registered.
C10_Witness ==
    /\ ev.name = "request_start_session"
    /\ InUsers(pre, EvFrom)
    /\ Truthy(EvTo)
    /\ ~InUsers(pre, EvTo)
    /\ EmittedTo("error", ev.sid)
    /\ klog = <<>>

-----------------------------------------------------------------------------
(* Claims about error handling of the handlers. *)

SessionEvents == {"request_start_session", "start_qkd_session"}

\* The handler run left the registry as it found it.
RegistryUnchanged == USERS = pre

\* C11: a session request naming an initiator or a peer that is not
\* registered gets exactly one error event, sent to the requesting transport,
\* and nothing else: no key event to anyone, no second attempt, the registry
\* unchanged.
C11_PeerUnavailableClean ==
    (/\ ev.name \in SessionEvents
     /\ Truthy(EvFrom) /\ Truthy(EvTo)
     /\ ~BothRegistered)
    => /\ Len(out) = 1
       /\ out[1].event = "error"
       /\ out[1].room = ev.sid
       /\ klog = <<>>
       /\ RegistryUnchanged

\* A QKD request from a registered initiator for a peer that has disconnected.
C11_Witness ==
    /\ ev.name = "start_qkd_session"
    /\ Truthy(EvTo)
    /\ InUsers(pre, EvFrom)
    /\ ~InUsers(pre, EvTo)
    /\ conn[ev.sid] = "open"
    /\ \E s \in Sids : conn[s] = "closed"
    /\ out = <<Emit("error", ev.sid, "error" :> <<"user(s) not online">>)>>

\* The required fields of each event's payload.
RequiredFields(name) ==
    CASE name = "register" -> {"username", "x25519_pub_b64"}
      [] name \in SessionEvents -> {"from", "to"}
      [] name = "send_encrypted_message" -> {"from", "to", "ciphertext_b64"}
      [] OTHER -> {}

MissingRequiredField ==
    \E k \in RequiredFields(ev.name) : ~Truthy(Get(ev.data, k, NoneV))

\* C12: an event whose payload lacks a required field is answered with an
\* error to its transport, leaves the registry unchanged and has nothing
\* forwarded or delivered.
C12_ValidationRejects ==
    MissingRequiredField
    => /\ EmittedTo("error", ev.sid)
       /\ RegistryUnchanged
       /\ \A i \in DOMAIN out :
            out[i].event \notin KeyEvents \cup {"new_encrypted_message", "message_delivered"}

-----------------------------------------------------------------------------
(* Claims about the KEM provider, checked under SpecKem. *)

\* C13: for a supported algorithm used in all three calls, decapsulating
\* the ciphertext with the generated secret key returns the secret that
\* encapsulation returned with that ciphertext, with the real library and in
\* simulated mode.
C13_KemCorrectness ==
    (/\ kpc = "decapsulated"
     /\ krun.uniform
     /\ krun.algorithm \in Algorithms)
    => krun.server_secret = krun.client_secret

\* A frodo run with the real library, kyber being simulated, ends with the
\* secret of the encapsulation on both sides.
C13_Witness ==
    /\ kpc = "decapsulated"
    /\ krun.uniform
    /\ krun.algorithm = "frodo"
    /\ has.frodo
    /\ ~has.kyber
    /\ krun.client_secret = <<"ss", "frodo", krun.pk[3], krun.ct[4]>>
    /\ krun.server_secret = krun.client_secret

\* C14: generate_pqc_keypair, pqc_encapsulate and pqc_decapsulate called
\* with an algorithm outside the supported set raise the unsupported-algorithm
\* error and call no primitive, real or simulated.
C14_UnsupportedBeforeCrypto ==
    (krun.call # "none" /\ krun.called_with \notin Algorithms)
    => /\ krun.raised = "ValueError"
       /\ krun.plog = <<>>
       /\ kpc = "raised"

\* Decapsulation asked for an unsupported algorithm after a supported
\* key generation and encapsulation.
C14_Witness ==
    /\ krun.call = "decapsulate"
    /\ krun.called_with = OtherAlgorithm
    /\ krun.algorithm \in Algorithms
    /\ krun.ct # NoneV
    /\ krun.raised = "ValueError"

-----------------------------------------------------------------------------
(* Claims about the hybrid session handler, checked under SpecSessions. *)

ProviderFailures == {"KeyError", "encap", "decap"}

\* C15: when a step of the KEM path raises (the peer entry has no keypair,
\* encapsulation raises, decapsulation raises) the request goes on: the
\* initiator's and the peer's transports get their key events with one
\* simulated ciphertext and one simulated secret, and no error is emitted.
C15_ProviderFailureFallback ==
    (ev.name = "request_start_session" /\ ev.raised \in ProviderFailures)
    => /\ EmittedTo("kyber_shared_for_initiator", Info(pre, EvFrom)["sid"])
       /\ EmittedTo("kyber_ready_peer", Info(pre, EvTo)["sid"])
       /\ Emissions("error") = {}
       /\ \A i \in Emissions("kyber_shared_for_initiator") \cup Emissions("kyber_ready_peer") :
            \E x, y \in Coins :
                /\ out[i].payload["cipher_b64"] = b64encode(urandom96(x))
                /\ out[i].payload["kyber_ss_b64"] = b64encode(urandom32(y))
       /\ \A i, j \in Emissions("kyber_shared_for_initiator") \cup Emissions("kyber_ready_peer") :
            /\ out[i].payload["cipher_b64"] = out[j].payload["cipher_b64"]
            /\ out[i].payload["kyber_ss_b64"] = out[j].payload["kyber_ss_b64"]

\* The peer registered while key generation raised, so its entry has no
\* keypair and the lookup of the public key raises.
C15_Witness ==
    /\ ev.name = "request_start_session"
    /\ ev.raised = "KeyError"
    /\ EvFrom # EvTo
    /\ "kyber" \notin DOMAIN Info(pre, EvTo)
    /\ EmittedTo("kyber_ready_peer", Info(pre, EvTo)["sid"])

\* C16: the kyber_shared_for_initiator payload carries the classical public
\* key the peer registered with, and the kyber_ready_peer payload the one the
\* initiator registered with.
C16_ClassicalKeysRouted ==
    (ev.name = "request_start_session" /\ BothRegistered)
    => /\ \A i \in Emissions("kyber_shared_for_initiator") :
            out[i].payload["peer_x25519_b64"] = Info(pre, EvTo)["pub"]
       /\ \A j \in Emissions("kyber_ready_peer") :
            out[j].payload["initiator_x25519_b64"] = Info(pre, EvFrom)["pub"]

-----------------------------------------------------------------------------
(* Claims about the signed handshake, checked under SpecHandshake. *)

\* client_verify_and_encapsulate has returned or raised.
ClientRan == hpc \in {"received", "rejected", "done", "failed"}

ClientCalled(name) == \E i \in DOMAIN client.plog : client.plog[i] = name

\* C17: the client calls pqc_encapsulate only after dilithium_verify_signature
\* returned true for the KEM public key it received, and when verification
\* returns false it raises with no encapsulation call made and nothing
\* returned.
C17_VerifyBeforeEncapsulate ==
    ClientRan =>
        /\ \E b \in BOOLEAN :
            client.is_valid = dilithium_verify_signature(wire["dilithium_public_key"],
                                                         wire["pqc_public_key"],
                                                         wire["signature"], b)
        /\ ClientCalled("pqc_encapsulate") =>
            /\ client.plog[1] = "dilithium_verify_signature"
            /\ client.plog[2] = "pqc_encapsulate"
            /\ client.is_valid
        /\ ~client.is_valid =>
            /\ client.raised = "InvalidSignature"
            /\ hpc = "rejected"
            /\ ~ClientCalled("pqc_encapsulate")
            /\ client.ciphertext = NoneV
            /\ client.shared_secret = NoneV

\* A handshake whose signature was replaced by junk on the way is rejected
\* after the one verification call.
C17_Witness ==
    /\ hpc = "rejected"
    /\ wire["signature"] = <<"junk">>
    /\ wire["pqc_public_key"] = handshake.data["pqc_public_key"]
    /\ client.raised = "InvalidSignature"
    /\ client.plog = <<"dilithium_verify_signature">>

\* C18: whatever was changed in the handshake data on the way, a client that
\* encapsulates does so against the KEM public key the server generated.
C18_NoKeySubstitution ==
    (ClientRan /\ ClientCalled("pqc_encapsulate"))
    => client.encap_pk = handshake.data["pqc_public_key"]

\* C19: a handshake that reaches the client as the server prepared it passes
\* verification and encapsulation, the server's decapsulation does not fail,
\* and the secret it returns is the client's.
C19_HonestHandshakeAgrees ==
    (ClientRan /\ WireIntact)
    => /\ client.is_valid
       /\ client.raised = "none"
       /\ hpc # "failed"
       /\ hpc = "done" =>
            /\ server_secret # NoneV
            /\ server_secret = client.shared_secret

\* An unmodified frodo handshake with the real signature library, completed.
C19_Witness ==
    /\ hpc = "done"
    /\ WireIntact
    /\ has.dilithium
    /\ handshake.data["pqc_algorithm"] = <<"frodo">>
    /\ client.is_valid
    /\ server_secret = client.shared_secret

-----------------------------------------------------------------------------
(* Claim about replayed envelopes, checked under SpecReplay. *)

\* C20: a sealed envelope that was accepted and forwarded and is submitted
\* again unchanged gets an error on the submitting transport and is not
\* forwarded a second time.
C20_ReplayRejected ==
    pc = "replayed"
    => /\ EmittedTo("error", ev.sid)
       /\ Emissions("new_encrypted_message") = {}
       /\ Emissions("message_delivered") = {}

-----------------------------------------------------------------------------
(* Claims about what the handlers send and to whom. *)

\* The name in the from field of the event just handled is registered to the
\* transport the event came from.
SenderRegisteredHere ==
    \E i \in DOMAIN pre : pre[i].username = EvFrom /\ pre[i].info["sid"] = ev.sid

\* C21: a send_encrypted_message whose from field names an identity that is
\* not the one registered to the sending transport is never forwarded as an
\* envelope that names that identity as sender and opens Ok.
C21_SpoofedSenderNotForwarded ==
    (/\ ev.name = "send_encrypted_message"
     /\ Truthy(EvFrom)
     /\ ~SenderRegisteredHere)
    => \A i \in Emissions("new_encrypted_message") :
          ~(/\ SenderOf(out[i].payload) = EvFrom
            /\ verify_message_integrity(out[i].payload, secret) = "Ok")

\* The KEM secret keys held in registry U.
SecretKeysIn(U) ==
    {U[i].info["kyber.private"] : i \in {k \in DOMAIN U : "kyber" \in DOMAIN U[k].info}}

\* Byte string s occurs in byte string v.
Occurs(s, v) ==
    \E a \in 0..(Len(v) - Len(s)) : SubSeq(v, a + 1, a + Len(s)) = s

\* Payload p carries s in one of its fields (the users field is a list of
\* names, every other field a string).
Carries(p, s) ==
    \E k \in DOMAIN p :
        IF k = "users" THEN \E j \in DOMAIN p[k] : Occurs(s, p[k][j])
        ELSE Occurs(s, p[k])

\* C22: no event emitted by any handler carries the KEM secret key of a
\* registry entry, neither of the registry the handler found nor of the one
\* it left.
C22_SecretKeyConfined ==
    \A sk \in SecretKeysIn(USERS) \cup SecretKeysIn(pre) :
        \A i \in DOMAIN out : ~Carries(out[i].payload, sk)

\* A hybrid session on the real path, where the handler read the peer's
\* secret key to decapsulate, with its key events out.
C22_Witness ==
    /\ ev.name = "request_start_session"
    /\ klog = <<"encap", "decap">>
    /\ SecretKeysIn(pre) # {}
    /\ \E i \in Emissions("kyber_ready_peer") :
          b64decode(out[i].payload["kyber_ss_b64"])
              = decap_secret(b64decode(out[i].payload["cipher_b64"]),
                             Info(pre, EvTo)["kyber.private"])

KeyFields == {"kyber_ss_b64", "shared_b64"}

\* The key material the event just handled put into its emissions.
KeyMaterial ==
    UNION {{b64decode(out[i].payload[k]) : k \in KeyFields \cap DOMAIN out[i].payload} :
             i \in DOMAIN out}

\* The transports the registry binds to the two parties of the request.
PartyTransports == {Info(pre, EvFrom)["sid"], Info(pre, EvTo)["sid"]}

\* C23: the key material of a session request is carried only by the
\* initiator's key event, sent to the initiator's registered transport, and
\* the peer's key event, sent to the peer's registered transport; no event
\* to another transport carries it and none is broadcast.
C23_SessionKeyConfined ==
    (ev.name \in SessionEvents /\ BothRegistered)
    => \A i \in DOMAIN out :
          (\E m \in KeyMaterial : Carries(out[i].payload, m))
          => /\ out[i].room \in PartyTransports
             /\ out[i].room # Broadcast
             /\ out[i].event \in KeyEvents
             /\ out[i].event = "kyber_shared_for_initiator"
                    => out[i].room = Info(pre, EvFrom)["sid"]
             /\ out[i].event = "kyber_ready_peer"
                    => out[i].room = Info(pre, EvTo)["sid"]
             /\ out[i].event = "qkd_shared_key"
                    => out[i].room = Info(pre, IF out[i].payload["peer"] = EvTo
                                               THEN EvFrom ELSE EvTo)["sid"]

\* A hybrid session between two identities asked for by a transport that
\* neither of them is registered to.
C23_Witness ==
    /\ ev.name = "request_start_session"
    /\ BothRegistered
    /\ EvFrom # EvTo
    /\ ev.sid \notin PartyTransports
    /\ EmittedTo("session_initiated", ev.sid)
    /\ KeyMaterial # {}

\* The ciphertexts and shared secrets the hybrid handler delivered.
DeliveredKem ==
    UNION {{b64decode(out[i].payload[k]) :
               k \in {"cipher_b64", "kyber_ss_b64"} \cap DOMAIN out[i].payload} :
             i \in DOMAIN out}

\* Output of the KEM: encap_secret's ciphertext and secret, decap_secret's secret.
FromKem(b) == b[1] \in {"ct", "ss"}

\* Output of os.urandom.
FromUrandom(b) == b[1] \in {"urandom96", "urandom32"}

\* C24: the ciphertext and the two shared secrets that a request_start_session
\* delivers all come from the KEM or all come from os.urandom, and they all
\* come from os.urandom when a step of the KEM path raised, also after
\* encapsulation had returned.
C24_NoRealSimulatedMix ==
    (ev.name = "request_start_session" /\ BothRegistered)
    => /\ DeliveredKem # {}
       /\ \/ \A b \in DeliveredKem : FromKem(b)
          \/ \A b \in DeliveredKem : FromUrandom(b)
       /\ ev.raised # "none" => \A b \in DeliveredKem : FromUrandom(b)
       /\ (oqs /\ ev.raised = "none") => \A b \in DeliveredKem : FromKem(b)

\* Encapsulation returned, decapsulation raised.
C24_Witness ==
    /\ ev.name = "request_start_session"
    /\ ev.raised = "decap"
    /\ klog = <<"encap", "urandom96", "urandom32">>
    /\ Cardinality(DeliveredKem) = 2
    /\ \A b \in DeliveredKem : FromUrandom(b)

-----------------------------------------------------------------------------
(* Claims about a disconnect that runs while a session handler is          *)
(* suspended, checked under SpecInterleaved.                                *)

\* The parties of the request that on_disconnect removed from the registry
\* after the handler's presence check.
DepartedParties == {l \in frame.left : l.username \in {EvFrom, EvTo}}

\* C25: when a party of a session request is unregistered by a disconnect
\* between the handler's presence check and its emissions, the request ends
\* with an error to the requesting transport and no key event goes to the
\* address the departed party was registered to.
C25_NoStaleDelivery ==
    (/\ pc = "handled"
     /\ ev.name \in SessionEvents
     /\ DepartedParties # {})
    => /\ EmittedTo("error", ev.sid)
       /\ \A i \in DOMAIN out, l \in DepartedParties :
            out[i].event \in KeyEvents => out[i].room # l.sid

\* The peer was unregistered after the KEM step of the request in hand.
PeerLeftAfterDerivation ==
    \E l \in frame.left : l.username = EvTo /\ l.at = "derived"

\* C26: when the peer of a hybrid request disconnects after the KEM step and
\* before the emissions, the initiator's key event is still sent to the
\* initiator's transport and nothing but key events, session_initiated and
\* the presence broadcast of the disconnect is emitted: no error.
C26_OptimisticGap ==
    (/\ pc = "handled"
     /\ ev.name = "request_start_session"
     /\ PeerLeftAfterDerivation)
    => /\ EmittedTo("kyber_shared_for_initiator", frame.initiator_info["sid"])
       /\ Emissions("error") = {}
       /\ \A i \in DOMAIN out :
            out[i].event \in {"kyber_shared_for_initiator", "kyber_ready_peer",
                              "session_initiated", "online_users"}

\* The peer's transport closed after the KEM step, the peer is out of the
\* registry, the initiator is connected and has its key event, and no error
\* was emitted.
C26_Witness ==
    /\ pc = "handled"
    /\ ev.name = "request_start_session"
    /\ PeerLeftAfterDerivation
    /\ EvFrom # EvTo
    /\ ~InUsers(USERS, EvTo)
    /\ conn[frame.peer_info["sid"]] = "closed"
    /\ conn[frame.initiator_info["sid"]] = "open"
    /\ ev.sid = frame.initiator_info["sid"]
    /\ EmittedTo("kyber_shared_for_initiator", ev.sid)
    /\ EmittedTo("kyber_ready_peer", frame.peer_info["sid"])
    /\ Emissions("error") = {}

-----------------------------------------------------------------------------
(* Claims about the guard: sealing, the send path and verification. *)

\* C27: sealing leaves the envelope with a timestamp field: the one it had,
\* whatever its value, or a fresh one when it had none; the tag is the HMAC
\* under the process secret of the content, the timestamp the sealed
\* envelope carries and the sender; no other field is changed.
C27_SealBindsTimestamp ==
    [][(gpc = "new" /\ gpc' = "sealed")
       => /\ "timestamp" \in DOMAIN msg'
          /\ "timestamp" \in DOMAIN msg => msg'["timestamp"] = msg["timestamp"]
          /\ "timestamp" \notin DOMAIN msg => msg'["timestamp"] \in NowStamps
          /\ \A k \in DOMAIN msg : msg'[k] = msg[k]
          /\ DOMAIN msg' = DOMAIN msg
                 \cup {"timestamp", "integrity", "integrity.type", "integrity.value"}
          /\ msg'["integrity"] = DictV
          /\ msg'["integrity.type"] = HMAC_SHA256
          /\ msg'["integrity.value"]
                 = HmacHex(secret, ContentOf(msg) \o <<"|">> \o msg'["timestamp"]
                                       \o <<"|">> \o SenderOf(msg))]_vars

\* An envelope with fallback content and no sender, sealed with a timestamp
\* of the clock and a tag over that timestamp.
C27_Witness ==
    /\ gpc = "sealed"
    /\ "from" \notin DOMAIN msg
    /\ "ciphertext_b64" \notin DOMAIN msg
    /\ Truthy(Get(msg, "message", EmptyStr))
    /\ msg["timestamp"] \in NowStamps
    /\ msg["integrity.value"]
           = HmacHex(secret, msg["message"] \o <<"|">> \o msg["timestamp"]
                                 \o <<"|">> \o Unknown)

-----------------------------------------------------------------------------
(* Claim about the registry as a frame, checked under Spec. *)

RoutingHandlers == {"request_start_session", "start_qkd_session", "send_encrypted_message"}

EntryFields == {"sid", "pub", "kyber", "kyber.public", "kyber.private"}

\* C30: request_start_session, start_qkd_session and send_encrypted_message
\* leave the registry as they found it, on success and on every error path:
\* the same entries in the same order with the same address, classical key
\* and keypair, and no field besides these.
C30_HandlersLeaveRegistry ==
    ev.name \in RoutingHandlers
    => /\ USERS = pre
       /\ \A i \in DOMAIN USERS : DOMAIN USERS[i].info \subseteq EntryFields

\* A QKD session between two registered identities delivered its key and
\* the two entries are as they were.
C30_Witness ==
    /\ ev.name = "start_qkd_session"
    /\ BothRegistered
    /\ EvFrom # EvTo
    /\ Cardinality(Emissions("qkd_shared_key")) = 2
    /\ Info(USERS, EvFrom) = Info(pre, EvFrom)
    /\ Info(USERS, EvTo) = Info(pre, EvTo)
    /\ "kyber" \in DOMAIN Info(USERS, EvFrom)

-----------------------------------------------------------------------------
(* Claims about generate_qkd_key, checked under SpecQkd. *)

\* The positions at which the two basis sequences of the run match.
Matching == {i \in DOMAIN qrun.alice_bits : qrun.alice_bases[i] = qrun.bob_bases[i]}

\* The j-th matching position.
MatchingAt(j) == CHOOSE i \in Matching : Cardinality({p \in Matching : p <= i}) = j

\* The sender's bits at the matching positions sum to an odd number.
RetainedOdd == Cardinality({i \in Matching : qrun.alice_bits[i] = 1}) % 2 = 1

\* C31: generate_qkd_key returns the sender's bits at the positions where the
\* two basis sequences match, in order, the last of them flipped exactly
\* when their sum is odd; the result has even parity and at most n bits.
C31_SiftingAndParity ==
    qrun.stage \in {"once", "twice"}
    => /\ Len(qrun.key) = Cardinality(Matching)
       /\ Len(qrun.key) <= Len(qrun.alice_bits)
       /\ \A j \in DOMAIN qrun.key :
            qrun.key[j] = IF j = Len(qrun.key) /\ RetainedOdd
                          THEN 1 - qrun.alice_bits[MatchingAt(j)]
                          ELSE qrun.alice_bits[MatchingAt(j)]
       /\ SumBits(qrun.key) % 2 = 0

\* Two positions match and carry the bits 1 and 0: the retained sum is odd
\* and the last retained bit comes back flipped.
C31_Witness ==
    /\ qrun.stage = "once"
    /\ Cardinality(Matching) = 2
    /\ RetainedOdd
    /\ qrun.alice_bits[MatchingAt(2)] = 0
    /\ qrun.key = <<1, 1>>

\* C39: two runs of generate_qkd_key on the same sender bits and the same
\* two basis sequences return the same key, whatever the receiver measured,
\* whatever noise was drawn and whatever the error_rate was in each.
C39_ReceiverIndependence ==
    qrun.stage = "twice" => qrun.key2 = qrun.key

\* Two runs in which Bob's results differ and the key is the same non-empty
\* sequence.
C39_Witness ==
    /\ qrun.stage = "twice"
    /\ qrun.bob_results # qrun.bob_results2
    /\ qrun.key # <<>>
    /\ qrun.key2 = qrun.key

-----------------------------------------------------------------------------
(* Claims about the envelope a message arrives in, checked under            *)
(* SpecMessages and SpecGuard.                                              *)

\* The tag verify_message_integrity recomputes for envelope m.
Recomputed(m) ==
    generate_hmac(ContentOf(m), Get(m, "timestamp", EmptyStr), SenderOf(m), secret)

\* C32: a send_encrypted_message whose payload has an integrity key, whatever
\* is stored under it, is forwarded only if the field is an HMAC_SHA256
\* object whose value equals the tag recomputed over the payload.
C32_TagRecomputedBeforeForward ==
    (/\ ev.name = "send_encrypted_message"
     /\ "integrity" \in DOMAIN ev.data
     /\ Emissions("new_encrypted_message") # {})
    => /\ ev.data["integrity"] = DictV
       /\ Get(ev.data, "integrity.type", NoneV) = HMAC_SHA256
       /\ Get(ev.data, "integrity.value", NoneV) = Recomputed(ev.data)

\* A tagged message from one transport is forwarded to the recipient's other
\* transport, and its tag is the recomputed one.
C32_Witness ==
    /\ RecipientRegistered
    /\ "integrity" \in DOMAIN ev.data
    /\ Info(pre, EvTo)["sid"] # ev.sid
    /\ EmittedTo("new_encrypted_message", Info(pre, EvTo)["sid"])
    /\ ev.data["integrity.value"] = Recomputed(ev.data)

-----------------------------------------------------------------------------
(* Claims about what the session and presence handlers emit, checked under  *)
(* SpecSessions.                                                            *)

\* The request_start_session just handled was carried out.
StartSucceeded ==
    /\ ev.name = "request_start_session"
    /\ Emissions("session_initiated") # {}

\* C33: a successful request_start_session produces exactly one
\* kyber_shared_for_initiator, to the initiator's transport, exactly one
\* kyber_ready_peer, to the peer's transport, and exactly one
\* session_initiated, to the requesting transport.
C33_ExactlyOnceKeyDelivery ==
    StartSucceeded
    => /\ Cardinality(Emissions("kyber_shared_for_initiator")) = 1
       /\ Cardinality(Emissions("kyber_ready_peer")) = 1
       /\ Cardinality(Emissions("session_initiated")) = 1
       /\ \A i \in Emissions("kyber_shared_for_initiator") : out[i].room = Info(pre, EvFrom)["sid"]
       /\ \A i \in Emissions("kyber_ready_peer") : out[i].room = Info(pre, EvTo)["sid"]
       /\ \A i \in Emissions("session_initiated") : out[i].room = ev.sid

\* The entries of registry U, as a set.
Entries(U) == {U[i] : i \in DOMAIN U}

\* The entries of registry U that are bound to transport sid.
BoundTo(U, sid) == {e \in Entries(U) : Get(e.info, "sid", NoneV) = sid}

\* C34: on_disconnect of transport addr removes only entries bound to addr:
\* every entry bound to another transport is still in the registry,
\* unchanged, and nothing is added.
C34_DisconnectFrame ==
    ev.name = "disconnect"
    => /\ Entries(pre) \ Entries(USERS) \subseteq BoundTo(pre, ev.sid)
       /\ Entries(pre) \ BoundTo(pre, ev.sid) \subseteq Entries(USERS)
       /\ Entries(USERS) \subseteq Entries(pre)

\* Two identities on two transports; one transport disconnects, its entry is
\* removed and the other identity's entry is the whole registry.
C34_Witness ==
    /\ ev.name = "disconnect"
    /\ Len(pre) = 2
    /\ BoundTo(pre, ev.sid) # {}
    /\ Entries(USERS) = Entries(pre) \ BoundTo(pre, ev.sid)
    /\ Len(USERS) = 1

\* Every online_users emission of the handler just run is a broadcast of
\* the identities in the registry the handler left, and there is one.
BroadcastsRegistry ==
    /\ Emissions("online_users") # {}
    /\ \A i \in Emissions("online_users") :
        /\ out[i].room = Broadcast
        /\ out[i].payload["users"] = UserList(USERS)

\* C40: every accepted register and every disconnect broadcasts online_users
\* with exactly the identities then in the registry; a rejected register
\* emits no online_users.
C40_PresenceBroadcast ==
    /\ (RegisterAccepted \/ ev.name = "disconnect") => BroadcastsRegistry
    /\ (ev.name = "register" /\ ~RegisterAccepted) => Emissions("online_users") = {}

\* A second identity registers and the broadcast lists both identities.
C40_Witness ==
    /\ RegisterAccepted
    /\ Len(pre) = 1
    /\ Len(USERS) = 2
    /\ BroadcastsRegistry

-----------------------------------------------------------------------------
(* Claims about what the tag covers, checked under SpecRedirect and         *)
(* SpecGuard.                                                               *)

\* The fields verify_message_integrity reads.
OpenedFields ==
    {"ciphertext_b64", "message", "timestamp", "from",
     "integrity", "integrity.type", "integrity.value"}

\* Envelopes m1 and m2 carry the same content, timestamp, sender and
\* integrity field.
AgreeOnOpened(m1, m2) ==
    \A k \in OpenedFields :
        /\ k \in DOMAIN m1 <=> k \in DOMAIN m2
        /\ k \in DOMAIN m1 => m1[k] = m2[k]

\* C35: two envelopes that agree on content, timestamp, sender and integrity
\* and differ in the recipient or in iv_b64 open to the same result; an
\* envelope that was accepted is accepted again when redirected, and is
\* forwarded to the registered recipient it now names.
C35_TagIgnoresRecipientAndIv ==
    [][(/\ pc' = "redirected"
        /\ AgreeOnOpened(ev.data, ev'.data)
        /\ ev'.data # ev.data)
       => /\ verify_message_integrity(ev'.data, secret)
               = verify_message_integrity(ev.data, secret)
          /\ (/\ verify_message_integrity(ev.data, secret) = "Ok"
              /\ Truthy(Get(ev'.data, "to", NoneV))
              /\ InUsers(USERS, Get(ev'.data, "to", NoneV)))
             => \E i \in DOMAIN out' :
                    /\ out'[i].event = "new_encrypted_message"
                    /\ out'[i].room = Info(USERS, Get(ev'.data, "to", NoneV))["sid"]]_vars

\* An envelope sealed for one identity came back naming the other, with an
\* iv_b64 field, opened Ok and went to the other identity's transport.
C35_Witness ==
    /\ pc = "redirected"
    /\ RecipientRegistered
    /\ "iv_b64" \in DOMAIN ev.data
    /\ verify_message_integrity(ev.data, secret) = "Ok"
    /\ EvFrom = EvTo
    /\ EmittedTo("new_encrypted_message", Info(pre, EvTo)["sid"])

\* C36: the signed string is an injective encoding of (content, timestamp,
\* sender): an envelope whose three values differ from those of the envelope
\* just sealed never gets the same tag under the same secret.
C36_InjectiveSignedString ==
    gpc = "sealed"
    => \A other \in Envelopes :
          SignedTriple(other) # SignedTriple(sealedMsg)
          => Recomputed(other) # sealedMsg["integrity.value"]

\* Clock readings of a second seal: those of the first and a later one.
ResealStamps == NowStamps \cup {<<"2">>}

\* C37: sealing is idempotent: sealing an envelope the server has sealed
\* gives that envelope back whatever the clock then reads; and the integrity
\* value forwarded for an envelope that arrived tagged and opened Ok is the
\* value received.  Checked on every forwarded message under SpecMessages.
C37_SealIdempotent ==
    ev.name = "send_encrypted_message"
    => \A i \in Emissions("new_encrypted_message") :
          /\ ev.raised = "none"
             => \A now \in ResealStamps :
                   add_message_integrity(out[i].payload, now, secret) = out[i].payload
          /\ "integrity" \in DOMAIN ev.data
             => out[i].payload["integrity.value"] = ev.data["integrity.value"]

\* An envelope that arrived tagged was re-sealed without an exception and
\* reached the recipient with the tag it came with.
C37_Witness ==
    /\ RecipientRegistered
    /\ "integrity" \in DOMAIN ev.data
    /\ ev.raised = "none"
    /\ \E i \in Emissions("new_encrypted_message") :
        /\ out[i].room = Info(pre, EvTo)["sid"]
        /\ out[i].payload = ev.data
        /\ out[i].payload["integrity.value"] = Recomputed(ev.data)

\* C38: unwrap_incoming_message is total: for every tagged envelope the
\* handler passes to it, it returns (True, envelope), and the message is
\* forwarded, or (False, error response), and the response is emitted to the
\* sending transport; it never leaves by an exception.
C38_UnwrapTotal ==
    (RecipientRegistered /\ "integrity" \in DOMAIN ev.data)
    => /\ ev.raised # "UnicodeEncodeError"
       /\ \/ EmittedTo("error", ev.sid)
          \/ Emissions("new_encrypted_message") # {}

====
